---- MODULE Spec2Model ----
(***************************************************************************)
(* Verification model of the tno task-supervision agent.                   *)
(*                                                                         *)
(* Modelled from the sources:                                              *)
(*   - SupervisorApi::submit / submit_with_task  (tno-core/supervisor)     *)
(*   - to_admission_policy, to_restart_policy, to_backoff_policy,          *)
(*     to_jitter_policy                           (tno-core/map)           *)
(*   - make_run_id / RUN_SEQ                      (tno-core/runner/id.rs)  *)
(*   - the subprocess execution body              (tno-exec/runner.rs)     *)
(*   - StateSubscriber::on_event                  (tno-core/state)         *)
(*   - the documented contract of RestartStrategy (tno-model/strategy)     *)
(*   - RunnerRouter, SubprocessTaskConfig         (tno-core/router,        *)
(*                                                 tno-exec/subprocess)    *)
(*   - the HTTP and gRPC submit_task handlers     (tno-api)                *)
(*   - Env::get, push, merged                     (tno-model/domain)       *)
(*   - the logging subscriber                     (tno-observe)            *)
(*   - SubprocessBackendConfig::validate and apply_to_command, and the     *)
(*     pre_exec closures of attach_rlimits, attach_cgroup and              *)
(*     attach_security                            (tno-exec/subprocess,    *)
(*                                                 tno-exec/utils)         *)
(* Modelled from the specification text (the code is not in the sources):  *)
(*   - the controller's per-lane state machine, the backoff law, the       *)
(*     event bus and the shutdown sequence (the taskvisor crate);          *)
(*   - the TaskState directory (tno-core/state/mod.rs).                    *)
(*                                                                         *)
(* The controller receives ControllerSpec {admission, task_spec} only: the *)
(* lane ("slot") it keys its state by is the task name, the one identity   *)
(* the ControllerSpec carries.                                             *)
(***************************************************************************)
EXTENDS Integers, Sequences, FiniteSets, TLC

\* ------------------------------------------------------------- bounds
MaxSubmits  == 2      \* submit / submit_with_task calls in one behaviour
MaxAttempts == 2      \* attempts of one submission
MaxK        == 4      \* attempts followed by the backoff law
MaxRunners  == 3      \* entries registered in the router
MaxPublished == 3     \* events the controller publishes on the bus
QueueCap    == 2      \* queue_capacity of a subscriber
MaxEnvLen   == 2      \* entries pushed to an environment
MaxCallers  == 3      \* threads calling make_run_id at once
RlimMax     == 3      \* libc::rlim_t::MAX, the largest value of a limit

\* ------------------------------------------------------------- values
Slots == {"a", "b"}

\* Option<T>: <<>> is None, <<v>> is Some(v).
None == <<>>
Some(v) == <<v>>

Min(a, b) == IF a <= b THEN a ELSE b
Max(a, b) == IF a >= b THEN a ELSE b

\* The name of the caller-built TaskRef handed to submit_with_task; run ids
\* made by make_run_id are the positive sequence numbers.
PrebuiltName == 0
Names == 0 .. MaxSubmits

AdmissionStrategy == {"DropIfRunning", "Replace", "Queue"}
JitterStrategy == {"None", "Full", "Equal", "Decorrelated"}

\* RestartStrategy: Never | OnFailure | Always { interval_ms: Option<u64> }
Never == [type |-> "Never", interval_ms |-> None]
OnFailure == [type |-> "OnFailure", interval_ms |-> None]
Always(i) == [type |-> "Always", interval_ms |-> i]

TaskOutcome == {"Success", "Failure", "Timeout", "Canceled"}

\* ------------------------------------------------- std::time::Duration
\* Duration { secs, nanos }, as Duration::from_millis builds it.
from_millis(ms) == [secs |-> ms \div 1000, nanos |-> (ms % 1000) * 1000000]
as_millis(d) == d.secs * 1000 + d.nanos \div 1000000

\* Option::map
OptMap(F(_), o) == IF o = None THEN None ELSE Some(F(o[1]))

\* ------------------------------------------------------ tno-core/map
to_admission_policy(s) ==
    CASE s = "DropIfRunning" -> "DropIfRunning"
      [] s = "Replace" -> "Replace"
      [] s = "Queue" -> "Queue"

\* A jitter mapping that confuses Decorrelated with Full.
to_jitter_policy_full(s) ==
    CASE s = "Decorrelated" -> "Full"
      [] s = "Equal" -> "Equal"
      [] s = "Full" -> "Full"
      [] s = "None" -> "None"

to_jitter_policy(s) ==
    CASE s = "Decorrelated" -> "Decorrelated"
      [] s = "Equal" -> "Equal"
      [] s = "Full" -> "Full"
      [] s = "None" -> "None"

\* A restart mapping that loses the interval of Always.
to_restart_policy_no_interval(s) ==
    CASE s.type = "Always" -> [type |-> "Always", interval |-> None]
      [] s.type = "OnFailure" -> [type |-> "OnFailure", interval |-> None]
      [] s.type = "Never" -> [type |-> "Never", interval |-> None]

\* A restart mapping that takes OnFailure for Always.
to_restart_policy_always(s) ==
    CASE s.type = "Always" ->
            [type |-> "Always", interval |-> OptMap(from_millis, s.interval_ms)]
      [] s.type = "OnFailure" -> [type |-> "Always", interval |-> None]
      [] s.type = "Never" -> [type |-> "Never", interval |-> None]

to_restart_policy(s) ==
    CASE s.type = "Always" ->
            [type |-> "Always", interval |-> OptMap(from_millis, s.interval_ms)]
      [] s.type = "OnFailure" -> [type |-> "OnFailure", interval |-> None]
      [] s.type = "Never" -> [type |-> "Never", interval |-> None]

\* A backoff mapping that swaps first and max.
to_backoff_policy_swapped(s) ==
    [first |-> from_millis(s.max_ms),
     max |-> from_millis(s.first_ms),
     jitter |-> to_jitter_policy(s.jitter),
     factor |-> s.factor]

to_backoff_policy(s) ==
    [first |-> from_millis(s.first_ms),
     max |-> from_millis(s.max_ms),
     jitter |-> to_jitter_policy(s.jitter),
     factor |-> s.factor]

\* ------------------------------------- controller: restart and backoff
\* Whether the controller runs another attempt of the same submission after
\* an attempt ended with outcome o. A canceled attempt is never restarted.
ShouldRestart(rp, o) ==
    CASE o = "Canceled" -> FALSE
      [] rp.type = "Always" -> TRUE
      [] rp.type = "OnFailure" -> o \in {"Failure", "Timeout"}
      [] rp.type = "Never" -> FALSE

RECURSIVE Pow(_, _)
Pow(b, e) == IF e = 0 THEN 1 ELSE b * Pow(b, e - 1)

\* base_k = min(max, first * factor^(k-1)), in milliseconds.
BaseDelay(bp, k) ==
    Min(as_millis(bp.max), as_millis(bp.first) * Pow(bp.factor, k - 1))

\* Uniform(lo, hi): the values a draw between lo and hi can give; a range
\* whose upper end lies below lo gives lo.
Uniform(lo, hi) == IF lo <= hi THEN lo .. hi ELSE {lo}

\* The delays the backoff law can schedule after attempt k, prev being the
\* delay it scheduled before (first, when it scheduled none).
BackoffDelays(bp, k, prev) ==
    LET base == BaseDelay(bp, k) IN
    CASE bp.jitter = "None" -> {base}
      [] bp.jitter = "Full" -> 0 .. base
      [] bp.jitter = "Equal" -> {base \div 2 + u : u \in 0 .. (base \div 2)}
      [] bp.jitter = "Decorrelated" ->
            {Min(as_millis(bp.max), u) : u \in Uniform(as_millis(bp.first), prev * 3)}

\* The delay before the next attempt: after a success under Always the
\* interval when one is set and none otherwise (an immediate restart); after a
\* failure or a timeout the next sample of the backoff law.
RestartDelays(rp, bp, o, k, prev) ==
    IF o = "Success"
    THEN IF rp.interval = None THEN {0} ELSE {as_millis(rp.interval[1])}
    ELSE BackoffDelays(bp, k, prev)

\* ---------------------------------------------------------------- state
VARIABLES
    nsub,     \* submit / submit_with_task calls made so far
    seq,      \* RUN_SEQ, the process-wide run-id counter
    ctl,      \* controller: lane (task name) -> slot state
    body,     \* the execution body of the lane's current attempt
    dir,      \* TaskState: task id -> task info
    mon,      \* per task id, what an observer of the event stream has seen
    bk,       \* the restart/backoff schedule of one submission (SpecBackoff)
    router,   \* RunnerRouter::runners, the entries in registration order
    ret,      \* what the last call of the API returned to its caller
    trk,      \* per task id, what was added and delivered to the tracker
    bus,      \* the event bus: what was published, each subscriber's queue
    sd,       \* shutdown: its phase, the tasks still running, the events
    proc,     \* one subprocess attempt, step by step: body, child, readers
    api,      \* the last submit_task request of the HTTP / gRPC service
    env,      \* the environments of a build: context, spec, task config
    ids,      \* concurrent callers of make_run_id: position, sequence, id
    pre       \* the child between fork and exec: hooks, limits, capabilities

rtVars == <<router, ret, trk>>
sideVars == <<bus, sd, proc, api, env, ids, pre>>
butBus == <<sd, proc, api, env, ids, pre>>
butSd == <<bus, proc, api, env, ids, pre>>
butProc == <<bus, sd, api, env, ids, pre>>
butApi == <<bus, sd, proc, env, ids, pre>>
butEnv == <<bus, sd, proc, api, ids, pre>>
butIds == <<bus, sd, proc, api, env, pre>>
butPre == <<bus, sd, proc, api, env, ids>>
mainVars == <<nsub, seq, ctl, body, dir, mon, bk, router, ret, trk>>
vars == <<nsub, seq, ctl, body, dir, mon, bk, rtVars, sideVars>>
supVars == <<nsub, seq, ctl, body, dir, mon>>

\* The backoff strategy and timeout of the submissions of Spec; the delays of
\* a backoff strategy are followed by SpecBackoff.
DefaultBackoff == [jitter |-> "None", first_ms |-> 1, max_ms |-> 1, factor |-> 1]
TimeoutsMs == {1500}

\* What a lane holds of a submission: the TaskSpec the controller was given
\* and the unit's captured configuration; and, for reference, the slot and the
\* restart strategy of the submitted policy.
NoEntry ==
    [spec |-> None, kind |-> "", fail_on_non_zero |-> FALSE, slot |-> "",
     restart |-> Never]

IdleLane ==
    [st |-> "Idle", cur |-> NoEntry, next |-> NoEntry, attempt |-> 0,
     phase |-> "none", cause |-> "none"]

NoBody == [pc |-> "none", child |-> "none", result |-> "none"]
StartBody == [pc |-> "start", child |-> "none", result |-> "none"]

NoTask ==
    [present |-> FALSE, slot |-> "", status |-> "", attempt |-> 0, error |-> None]

\* An event of the controller about a task; of the events the controller
\* publishes, TaskFailed carries a reason.
Ev(kind, task, attempt) ==
    [kind |-> kind, task |-> Some(task), attempt |-> attempt,
     reason |-> IF kind = "TaskFailed" THEN Some("reason") ELSE None]

\* What was added and delivered to the tracker for a task id: `live`, it was
\* added and no TaskRemoved was delivered since; `starts`, the TaskStarting
\* events delivered; `last`, the status of the last status update;
\* `task_added`, the last event delivered was TaskAdded.
NoTrk ==
    [added |-> FALSE, live |-> FALSE, starts |-> 0, last |-> "none",
     task_added |-> FALSE]

\* ------------------------------------------------------ runner router
\* The kinds of a CreateSpec (TaskKind::kind) and the commands of a
\* Subprocess kind, a command being the sequence of its characters.
TaskKinds == {"none", "subprocess", "wasm"}
Commands == {<<>>, <<" ">>, <<"l", "s">>, <<" ", "l", "s", " ">>}
RunnerTags == {"t1", "t2"}

\* The runners: SubprocessRunner, and a runner that supports every spec and
\* builds a unit of a fixed name from a closure.
Runners == {"subprocess", "fn"}

\* Of the labels of an entry or a spec the router reads the value under
\* LABEL_RUNNER_TAG only: labels are modelled by that value, None if absent.
RunnerEntry(runner, labels) == [runner |-> runner, labels |-> labels]

CreateSpec(slot, kind, command, fnz, adm, rst, tmo, labels) ==
    [slot |-> slot, kind |-> kind, command |-> command, fail_on_non_zero |-> fnz,
     admission |-> adm, restart |-> rst, timeout_ms |-> tmo, labels |-> labels]

runner_tag(spec) == spec.labels

RECURSIVE trim_start(_)
trim_start(c) ==
    IF c # <<>> /\ Head(c) = " " THEN trim_start(Tail(c)) ELSE c

RECURSIVE trim_end(_)
trim_end(c) ==
    IF c # <<>> /\ c[Len(c)] = " " THEN trim_end(SubSeq(c, 1, Len(c) - 1)) ELSE c

trim(c) == trim_end(trim_start(c))

\* A validation that takes the command as it is written.
validate_no_trim(command) ==
    IF command = <<>>
    THEN [ok |-> FALSE, err |-> "Subprocess command is empty"]
    ELSE [ok |-> TRUE]

\* SubprocessConfig::validate
validate(command) ==
    IF trim(command) = <<>>
    THEN [ok |-> FALSE, err |-> "Subprocess command is empty"]
    ELSE [ok |-> TRUE]

\* Runner::supports
supports(runner, spec) ==
    IF runner = "subprocess" THEN spec.kind = "subprocess" ELSE TRUE

\* A label filter that lets an entry without the label pass.
tag_matches_lenient(entry, spec) ==
    LET wanted == runner_tag(spec)
    IN  IF wanted # None
        THEN IF entry.labels # None THEN entry.labels[1] = wanted[1] ELSE TRUE
        ELSE TRUE

\* The label filter of RunnerRouter::pick.
tag_matches(entry, spec) ==
    LET wanted == runner_tag(spec)
    IN  IF wanted # None
        THEN IF entry.labels # None THEN entry.labels[1] = wanted[1] ELSE FALSE
        ELSE TRUE

\* The positions of the entries that pass both filters of pick.
Survivors(r, spec) ==
    {i \in 1 .. Len(r) : supports(r[i].runner, spec) /\ tag_matches(r[i], spec)}

\* A pick that returns the last survivor.
pick_last(r, spec) ==
    LET sv == Survivors(r, spec)
    IN  IF sv = {} THEN None ELSE Some(CHOOSE i \in sv : \A j \in sv : i >= j)

\* RunnerRouter::pick: the position of the first survivor, if any.
pick(r, spec) ==
    LET sv == Survivors(r, spec)
    IN  IF sv = {} THEN None ELSE Some(CHOOSE i \in sv : \A j \in sv : i <= j)

\* Runner::build_task with run id counter at sq: the unit built, or the
\* error, and the counter afterwards. SubprocessRunner takes the run id
\* before it validates the configuration.
build_task(runner, spec, sq) ==
    IF runner = "subprocess"
    THEN IF spec.kind # "subprocess"
         THEN [ok |-> FALSE, err |-> [type |-> "Runner", msg |-> "UnsupportedKind"],
               seq |-> sq]
         ELSE IF validate(spec.command).ok
              THEN [ok |-> TRUE, name |-> sq, kind |-> "Subprocess",
                    fail_on_non_zero |-> spec.fail_on_non_zero, seq |-> sq + 1]
              ELSE [ok |-> FALSE, err |-> [type |-> "Runner", msg |-> "InvalidSpec"],
                    seq |-> sq + 1]
    ELSE [ok |-> TRUE, name |-> PrebuiltName, kind |-> "Fn",
          fail_on_non_zero |-> FALSE, seq |-> sq]

NoRunner(msg) == [type |-> "NoRunner", msg |-> msg]

\* A build that asks the runners first.
build_pick_first(r, spec, sq) ==
    LET p == pick(r, spec)
    IN  IF p = None
        THEN [ok |-> FALSE, err |-> NoRunner(spec.kind), seq |-> sq]
        ELSE build_task(r[p[1]].runner, spec, sq)

\* RunnerRouter::build
build(r, spec, sq) ==
    IF spec.kind = "none"
    THEN [ok |-> FALSE, err |-> NoRunner("TaskKind::None requires submit_with_task()"),
          seq |-> sq]
    ELSE LET p == pick(r, spec)
         IN  IF p = None
             THEN [ok |-> FALSE, err |-> NoRunner(spec.kind), seq |-> sq]
             ELSE build_task(r[p[1]].runner, spec, sq)

\* RunnerRouter::contains_runner_tag
contains_runner_tag(r, tag) ==
    \E i \in 1 .. Len(r) : r[i].labels = Some(tag)

\* RunnerRouter::register and register_with_labels
register(r, runner) == Append(r, RunnerEntry(runner, None))

register_with_labels(r, runner, labels) == Append(r, RunnerEntry(runner, labels))

\* tno_exec::subprocess::register_subprocess_runner: the router afterwards
\* and what the caller is returned.
register_subprocess_runner(r, name) ==
    IF contains_runner_tag(r, name)
    THEN [router |-> r, ok |-> FALSE,
          err |-> [type |-> "DuplicateRunnerTag", msg |-> name]]
    ELSE [router |-> register_with_labels(r, "subprocess", Some(name)), ok |-> TRUE]

\* LogConfig::default
LogConfig_default ==
    [max_line_length |-> 4096, stdout_info |-> TRUE, stderr_warn |-> TRUE]

\* The backend configurations a runner is registered with: cgroups with a
\* memory limit and a pid limit that are zero or not, rlimits with a file size
\* that is zero or not, and a log configuration whose line length is the
\* default or zero.
Backends ==
    {[rlimits |-> r, cgroups |-> c, security |-> None, log |-> l] :
        r \in {None} \cup {Some([max_open_files |-> None,
                                 max_file_size_bytes |-> Some(f),
                                 disable_core_dumps |-> FALSE]) : f \in {0, 1}},
        c \in {None} \cup {Some([cpu |-> None, memory |-> mp[1], pids |-> mp[2]]) :
                              mp \in {<<Some(0), None>>, <<Some(1), Some(0)>>,
                                      <<Some(1), Some(1)>>}},
        l \in {LogConfig_default, [LogConfig_default EXCEPT !.max_line_length = 0]}}

\* SubprocessBackendConfig::validate: the first error, or None.
backend_validate(backend) ==
    IF backend.cgroups # None /\ backend.cgroups[1].memory = Some(0)
    THEN Some("cgroups.memory cannot be zero")
    ELSE IF backend.cgroups # None /\ backend.cgroups[1].pids = Some(0)
    THEN Some("cgroups.pids cannot be zero")
    ELSE IF backend.rlimits # None /\ backend.rlimits[1].max_file_size_bytes = Some(0)
    THEN Some("rlimits.max_file_size_bytes cannot be zero")
    ELSE None

\* register_subprocess_runner_with_backend, the backend configuration being
\* valid or not.
register_subprocess_runner_with_backend(r, name, backend_valid) ==
    IF contains_runner_tag(r, name)
    THEN [router |-> r, ok |-> FALSE,
          err |-> [type |-> "DuplicateRunnerTag", msg |-> name]]
    ELSE IF ~backend_valid
         THEN [router |-> r, ok |-> FALSE,
               err |-> [type |-> "InvalidSpec", msg |-> "backend"]]
         ELSE [router |-> register_with_labels(r, "subprocess", Some(name)),
               ok |-> TRUE]

\* --------------------------------------------------- TaskState directory
add_task(d, id, slot) ==
    [d EXCEPT ![id] = [present |-> TRUE, slot |-> slot, status |-> "Pending",
                       attempt |-> 0, error |-> None]]

increment_attempt(d, id) ==
    IF d[id].present THEN [d EXCEPT ![id].attempt = @ + 1] ELSE d

update_status(d, id, status, error) ==
    IF d[id].present
    THEN [d EXCEPT ![id].status = status, ![id].error = error]
    ELSE d

remove_task(d, id) == [d EXCEPT ![id] = NoTask]

TaskStatus ==
    {"Pending", "Running", "Succeeded", "Failed", "Timeout", "Canceled", "Exhausted"}

\* TaskState::get and TaskState::list_by_status, which SupervisorApi::get_task
\* and list_tasks_by_status return as they are.
get(d, id) == IF d[id].present THEN Some(d[id]) ELSE None

list_by_status(d, status) == {id \in DOMAIN d : d[id].present /\ d[id].status = status}

list_all(d) == {id \in DOMAIN d : d[id].present}

list_by_slot(d, slot) == {id \in DOMAIN d : d[id].present /\ d[id].slot = slot}

\* ------------------------------------- StateSubscriber::on_event
\* The arms of the match on event.kind.
on_task_added(d, id) == d

\* A TaskStarting arm that sets the status only.
on_task_starting_no_increment(d, id) == update_status(d, id, "Running", None)

on_task_starting(d, id) ==
    update_status(increment_attempt(d, id), id, "Running", None)

\* A TaskFailed arm that stores the reason as the event carries it.
on_task_failed_raw(d, id, reason) == update_status(d, id, "Failed", reason)

on_task_failed(d, id, reason) ==
    update_status(d, id, "Failed", Some(IF reason # None THEN reason[1] ELSE "unknown"))

\* A TimeoutHit arm that files the task under Failed.
on_timeout_hit_as_failed(d, id) == update_status(d, id, "Failed", Some("timeout"))

on_timeout_hit(d, id) == update_status(d, id, "Timeout", Some("timeout"))

on_actor_exhausted(d, id, reason) ==
    update_status(d, id, "Exhausted",
                  Some(IF reason # None THEN reason[1] ELSE "exhausted"))

\* A TaskRemoved arm that keeps the entry.
on_task_removed_keep(d, id) == d

on_task_removed(d, id) == remove_task(d, id)

task_id_from_event(e) == e.task

\* A tracker that takes a TaskStopped with a reason for a cancellation.
on_task_stopped_by_reason(d, id, reason) ==
    update_status(d, id, IF reason = None THEN "Succeeded" ELSE "Canceled", None)

\* The TaskStopped arm: Succeeded and no error; the reason of the event is
\* not looked at.
on_task_stopped(d, id, reason) == update_status(d, id, "Succeeded", None)

on_event(d, e) ==
    LET task_id == task_id_from_event(e)
    IN  IF task_id = None THEN d
        ELSE LET id == task_id[1]
             IN  CASE e.kind = "TaskAdded" -> on_task_added(d, id)
                   [] e.kind = "TaskStarting" -> on_task_starting(d, id)
                   [] e.kind = "TaskStopped" -> on_task_stopped(d, id, e.reason)
                   [] e.kind = "TaskFailed" -> on_task_failed(d, id, e.reason)
                   [] e.kind = "TimeoutHit" -> on_timeout_hit(d, id)
                   [] e.kind = "ActorExhausted" -> on_actor_exhausted(d, id, e.reason)
                   [] e.kind = "TaskRemoved" -> on_task_removed(d, id)
                   [] OTHER -> d

\* The directory after the subscriber's worker applied the events in order.
RECURSIVE Apply(_, _)
Apply(d, evs) == IF evs = <<>> THEN d ELSE Apply(on_event(d, Head(evs)), Tail(evs))

\* -------------------------------------------- observer of the event stream
Terminal == {"TaskStopped", "TaskFailed", "TimeoutHit", "ActorExhausted"}

NoMon ==
    [last |-> "none", term |-> "none", att |-> 0, open |-> FALSE, ok |-> TRUE,
     removed |-> 0]

\* One event seen for a task. `open`: an attempt was started and has not
\* ended; `att`: the attempt of the last TaskStarting; `term`: the last
\* terminal event; `removed`: the TaskRemoved events seen; `ok`: so far every
\* TaskStarting{k} was followed by exactly one terminal event of attempt k
\* before the next TaskStarting, which is {k+1}, or {1} of a new run.
Observe(m, e) ==
    CASE e.kind = "TaskStarting" ->
            [m EXCEPT !.last = e.kind, !.att = e.attempt, !.open = TRUE,
                      !.ok = @ /\ ~m.open /\ (e.attempt = m.att + 1 \/ e.attempt = 1)]
      [] e.kind \in Terminal ->
            [m EXCEPT !.last = e.kind, !.term = e.kind, !.open = FALSE,
                      !.ok = @ /\ m.open /\ e.attempt = m.att]
      [] e.kind = "TaskRemoved" ->
            [m EXCEPT !.last = e.kind, !.removed = @ + 1, !.att = 0]
      [] OTHER -> [m EXCEPT !.last = e.kind]

RECURSIVE ObserveAll(_, _)
ObserveAll(mo, evs) ==
    IF evs = <<>> THEN mo
    ELSE ObserveAll([mo EXCEPT ![Head(evs).task[1]] = Observe(@, Head(evs))], Tail(evs))

\* -------------------------------------- SupervisorApi::submit_with_task
\* The ControllerSpec built from the unit and its policy. policy.slot is not
\* part of it.
ControllerSpecOf(name, policy) ==
    [admission |-> to_admission_policy(policy.admission),
     task_spec |-> [task |-> name,
                    restart |-> to_restart_policy(policy.restart),
                    backoff |-> to_backoff_policy(policy.backoff),
                    timeout |-> Some(from_millis(policy.timeout_ms))]]

\* The lane the controller keeps a ControllerSpec in: the task's name.
LaneOf(cs) == cs.task_spec.task

\* ------------------------------------------------ subprocess body
\* The result of the body when child.wait() gives `status`: an error of wait
\* itself, or the exit status of the child.
ExitResult(status, fail_on_non_zero) ==
    CASE status = "waiterr" -> "fatal"
      [] status # "zero" /\ fail_on_non_zero -> "fail"
      [] OTHER -> "ok"

\* ------------------------------------------ controller: classification
Classify(result, cause) ==
    CASE cause = "timeout" -> "Timeout"
      [] cause \in {"replaced", "cancel"} -> "Canceled"
      [] result = "ok" -> "Success"
      [] result \in {"fail", "fatal"} -> "Failure"
      [] OTHER -> "Canceled"

TerminalEvent(o) ==
    CASE o = "Success" -> "TaskStopped"
      [] o = "Failure" -> "TaskFailed"
      [] o = "Timeout" -> "TimeoutHit"
      [] o = "Canceled" -> "TaskStopped"

\* ------------------------------------------------------------- actions
\* The bus hands the events to the subscribers in order; the state
\* subscriber applies them to directory d.
Emit(d, evs) ==
    /\ dir' = Apply(d, evs)
    /\ mon' = ObserveAll(mon, evs)

\* Controller::submit: admission of entry e under ControllerSpec cs into its
\* lane; d is the directory after the caller's add_task.
Admit(cs, e, d) ==
    LET n == LaneOf(cs)
        L == ctl[n]
    IN  CASE L.st = "Idle" ->
              /\ Emit(d, <<Ev("ControllerSubmitted", n, 0), Ev("TaskAdded", n, 0),
                           Ev("TaskStarting", n, 1)>>)
              /\ ctl' = [ctl EXCEPT ![n] =
                            [st |-> "Running", cur |-> e, next |-> NoEntry,
                             attempt |-> 1, phase |-> "run", cause |-> "none"]]
              /\ body' = [body EXCEPT ![n] = StartBody]
          [] L.st # "Idle" /\ cs.admission = "DropIfRunning" ->
              /\ Emit(d, <<Ev("ControllerRejected", n, 0)>>)
              /\ UNCHANGED <<ctl, body>>
          [] L.st # "Idle" /\ cs.admission = "Replace" ->
              /\ Emit(d, <<Ev("ControllerSlotTransition", n, 0)>>)
              /\ ctl' = [ctl EXCEPT ![n].st = "CancellingForReplace",
                                    ![n].next = e,
                                    ![n].cause = "replaced"]
              /\ UNCHANGED body
          [] L.st # "Idle" /\ cs.admission = "Queue" ->
              /\ Emit(d, <<Ev("ControllerSlotTransition", n, 0)>>)
              /\ ctl' = [ctl EXCEPT ![n].st = IF @ = "CancellingForReplace"
                                              THEN @ ELSE "Queued",
                                    ![n].next = e]
              /\ UNCHANGED body

TaskPolicy(slot, adm, rst, tmo) ==
    [slot |-> slot, admission |-> adm, restart |-> rst, backoff |-> DefaultBackoff,
     timeout_ms |-> tmo]

EntryOf(cs, policy, kind, fnz) ==
    [spec |-> Some(cs.task_spec), kind |-> kind, fail_on_non_zero |-> fnz,
     slot |-> policy.slot, restart |-> policy.restart]

\* SupervisorApi::submit_with_task: the task is added to the directory under
\* its name and policy.slot, and the ControllerSpec is handed to the controller.
submit_with_task(name, kind, fnz, policy, d) ==
    LET cs == ControllerSpecOf(name, policy)
    IN  Admit(cs, EntryOf(cs, policy, kind, fnz), add_task(d, name, policy.slot))

\* What a call of the API returns: the task id, or the error.
NoErr == [type |-> "", msg |-> ""]
NoRet == [op |-> "none", ok |-> TRUE, id |-> 0, err |-> NoErr]
Returned(op, id) == [op |-> op, ok |-> TRUE, id |-> id, err |-> NoErr]
Refused(op, err) == [op |-> op, ok |-> FALSE, id |-> 0, err |-> err]

\* TaskPolicy::from_spec
from_spec(spec) ==
    TaskPolicy(spec.slot, spec.admission, spec.restart, spec.timeout_ms)

\* SupervisorApi::submit: the router builds the unit, or the call returns the
\* router's error; the unit's name is the task id, the task is added to the
\* directory and submit_with_task is called.
submit(spec) ==
    LET b == build(router, spec, seq)
    IN  /\ nsub < MaxSubmits
        /\ nsub' = nsub + 1
        /\ seq' = b.seq
        /\ IF b.ok
           THEN /\ submit_with_task(b.name, b.kind, b.fail_on_non_zero,
                                    from_spec(spec), add_task(dir, b.name, spec.slot))
                /\ ret' = Returned("submit", b.name)
           ELSE /\ ret' = Refused("submit", b.err)
                /\ UNCHANGED <<ctl, body, dir, mon>>
        /\ UNCHANGED <<bk, router, trk>>

\* A call of submit by a user of the library.
SubmitSpec(spec) == submit(spec) /\ UNCHANGED sideVars

\* submit of a Subprocess spec with a command and no runner-tag.
Submit(slot, adm, rst, fnz, tmo) ==
    SubmitSpec(CreateSpec(slot, "subprocess", <<"l", "s">>, fnz, adm, rst, tmo, None))

\* A caller hands a unit it built, named PrebuiltName, to submit_with_task.
SubmitWithTask(slot, adm, rst, tmo) ==
    /\ nsub < MaxSubmits
    /\ nsub' = nsub + 1
    /\ submit_with_task(PrebuiltName, "Fn", FALSE, TaskPolicy(slot, adm, rst, tmo), dir)
    /\ ret' = Returned("submit_with_task", PrebuiltName)
    /\ UNCHANGED <<seq, bk, router, trk, sideVars>>

\* Registration of runners, by the router's own methods and by tno_exec's.
\* SupervisorApi::new takes the router by value: runners are registered
\* before the supervisor accepts its first call.
Register(runner) ==
    /\ nsub = 0
    /\ Len(router) < MaxRunners
    /\ router' = register(router, runner)
    /\ ret' = Returned("register", 0)
    /\ UNCHANGED <<supVars, bk, trk, sideVars>>

RegisterWithLabels(runner, tag) ==
    /\ nsub = 0
    /\ Len(router) < MaxRunners
    /\ router' = register_with_labels(router, runner, Some(tag))
    /\ ret' = Returned("register_with_labels", 0)
    /\ UNCHANGED <<supVars, bk, trk, sideVars>>

RegisterSubprocessRunner(name) ==
    LET r == register_subprocess_runner(router, name)
    IN  /\ nsub = 0
        /\ Len(router) < MaxRunners
        /\ router' = r.router
        /\ ret' = IF r.ok THEN Returned("register_subprocess_runner", 0)
                          ELSE Refused("register_subprocess_runner", r.err)
        /\ UNCHANGED <<supVars, bk, trk, sideVars>>

RegisterSubprocessRunnerWithBackend(name, backend) ==
    LET r == register_subprocess_runner_with_backend(router, name,
                                                     backend_validate(backend) = None)
    IN  /\ nsub = 0
        /\ Len(router) < MaxRunners
        /\ router' = r.router
        /\ ret' = IF r.ok
                  THEN Returned("register_subprocess_runner_with_backend", 0)
                  ELSE Refused("register_subprocess_runner_with_backend", r.err)
        /\ UNCHANGED <<supVars, bk, trk, sideVars>>

\* Whether the cancel token of the lane's running attempt is cancelled.
Cancelled(n) == ctl[n].cause # "none"

\* Controller: the attempt's hard timeout elapses; the attempt is signalled to
\* cancel with cause timeout.
Timeout(n) ==
    /\ ctl[n].phase = "run"
    /\ ctl[n].cause = "none"
    /\ body[n].pc \in {"start", "select"}
    /\ ctl' = [ctl EXCEPT ![n].cause = "timeout"]
    /\ UNCHANGED <<nsub, seq, body, dir, mon, bk, rtVars, sideVars>>

\* cancel(task_id): the lane's submission is signalled to cancel.
Cancel(n) ==
    /\ ctl[n].phase \in {"run", "sleep"}
    /\ ctl[n].cause = "none"
    /\ ctl' = [ctl EXCEPT ![n].cause = "cancel"]
    /\ UNCHANGED <<nsub, seq, body, dir, mon, bk, rtVars, sideVars>>

\* Body: apply the backend hooks and spawn the child; a failure is fatal.
BodySpawn(n, ok) ==
    /\ body[n].pc = "start"
    /\ ctl[n].cur.kind = "Subprocess"
    /\ body' = [body EXCEPT ![n] =
                   IF ok THEN [@ EXCEPT !.pc = "select", !.child = "alive"]
                   ELSE [@ EXCEPT !.pc = "returned", !.result = "fatal"]]
    /\ UNCHANGED <<nsub, seq, ctl, dir, mon, bk, rtVars, sideVars>>

\* Body: select! takes the wait branch. The child has exited: the readers are
\* joined, the cgroup is removed and the result returned. Or wait failed: the
\* body returns at once, not knowing what became of the child.
BodyExit(n, status) ==
    /\ body[n].pc = "select"
    /\ body' = [body EXCEPT ![n].pc = "returned",
                            ![n].child = IF status = "waiterr" THEN "unknown" ELSE "dead",
                            ![n].result =
                                ExitResult(status, ctl[n].cur.fail_on_non_zero)]
    /\ UNCHANGED <<nsub, seq, ctl, dir, mon, bk, rtVars, sideVars>>

\* A cancel branch that returns Canceled without killing the child.
BodyKill_no_kill(n) ==
    /\ body[n].pc = "select"
    /\ Cancelled(n)
    /\ body' = [body EXCEPT ![n].pc = "returned", ![n].result = "canceled"]
    /\ UNCHANGED <<nsub, seq, ctl, dir, mon, bk, rtVars, sideVars>>

\* Body: select! takes the cancel branch: kill the child and reap it (an error
\* of kill, which a child already gone gives, is logged and ignored), join the
\* readers, remove the cgroup, return Canceled.
BodyKill(n) ==
    /\ body[n].pc = "select"
    /\ Cancelled(n)
    /\ body' = [body EXCEPT ![n].pc = "returned", ![n].child = "dead",
                            ![n].result = "canceled"]
    /\ UNCHANGED <<nsub, seq, ctl, dir, mon, bk, rtVars, sideVars>>

\* A caller-built unit runs and returns; it can return Canceled once its
\* token is cancelled.
FnReturn(n, r) ==
    /\ body[n].pc = "start"
    /\ ctl[n].cur.kind = "Fn"
    /\ r = "canceled" => Cancelled(n)
    /\ body' = [body EXCEPT ![n].pc = "returned", ![n].result = r]
    /\ UNCHANGED <<nsub, seq, ctl, dir, mon, bk, rtVars, sideVars>>

\* Controller: the lane's submission is over: remove it and start the pending
\* one, if any, as a fresh first attempt. `evs` are the events already due.
Finish(n, evs) ==
    LET L == ctl[n]
    IN  IF L.next # NoEntry
        THEN /\ Emit(dir, evs \o <<Ev("TaskRemoved", n, 0), Ev("TaskAdded", n, 0),
                                   Ev("TaskStarting", n, 1)>>)
             /\ ctl' = [ctl EXCEPT ![n] =
                           [st |-> "Running", cur |-> L.next, next |-> NoEntry,
                            attempt |-> 1, phase |-> "run", cause |-> "none"]]
             /\ body' = [body EXCEPT ![n] = StartBody]
        ELSE /\ Emit(dir, evs \o <<Ev("TaskRemoved", n, 0)>>)
             /\ ctl' = [ctl EXCEPT ![n] = IdleLane]
             /\ body' = [body EXCEPT ![n] = NoBody]

\* Controller: the attempt's body has returned: classify the outcome, publish
\* it, and consult the restart policy.
AttemptEnd(n) ==
    /\ ctl[n].phase = "run"
    /\ body[n].pc = "returned"
    /\ LET o == Classify(body[n].result, ctl[n].cause)
           rp == ctl[n].cur.spec[1].restart
           ended == Ev(TerminalEvent(o), n, ctl[n].attempt)
       IN  IF ctl[n].st # "CancellingForReplace" /\ ShouldRestart(rp, o)
           THEN /\ Emit(dir, <<ended, Ev("BackoffScheduled", n, ctl[n].attempt)>>)
                /\ ctl' = [ctl EXCEPT ![n].phase = "sleep"]
                /\ body' = [body EXCEPT ![n].pc = "done"]
           ELSE Finish(n, <<ended>>)
    /\ UNCHANGED <<nsub, seq, bk, rtVars, sideVars>>

\* A controller that starts the next attempt without waiting for the running
\* one to end.
WakeUp_early(n) ==
    /\ ctl[n].phase \in {"sleep", "run"}
    /\ ctl[n].cause = "none"
    /\ ctl[n].attempt < MaxAttempts
    /\ Emit(dir, <<Ev("TaskStarting", n, ctl[n].attempt + 1)>>)
    /\ ctl' = [ctl EXCEPT ![n].phase = "run", ![n].attempt = @ + 1]
    /\ body' = [body EXCEPT ![n] = StartBody]
    /\ UNCHANGED <<nsub, seq, bk, rtVars, sideVars>>

\* Controller: the backoff sleep is over; the next attempt starts.
WakeUp(n) ==
    /\ ctl[n].phase = "sleep"
    /\ ctl[n].cause = "none"
    /\ ctl[n].attempt < MaxAttempts
    /\ Emit(dir, <<Ev("TaskStarting", n, ctl[n].attempt + 1)>>)
    /\ ctl' = [ctl EXCEPT ![n].phase = "run", ![n].attempt = @ + 1]
    /\ body' = [body EXCEPT ![n] = StartBody]
    /\ UNCHANGED <<nsub, seq, bk, rtVars, sideVars>>

\* Controller: the backoff sleep is cancelled (replace, cancel).
SleepCancelled(n) ==
    /\ ctl[n].phase = "sleep"
    /\ ctl[n].cause # "none"
    /\ Finish(n, <<>>)
    /\ UNCHANGED <<nsub, seq, bk, rtVars, sideVars>>

RestartChoices == {Never, OnFailure, Always(None)}

BkIdle == [phase |-> "off"]

\* ------------------------------------------------------- the event bus
\* The subscribers SupervisorApi::new hands to the supervisor: the tracker,
\* and the logging subscriber of tno-observe.
Subscribers == {"state-subscriber", "subscriber"}

\* Subscribe::queue_capacity
queue_capacity(s) == QueueCap

\* `emitted`: the events published, in order; `q`: for each subscriber the
\* queue of its worker, an event being held as its position in `emitted`;
\* `got`: the events the worker has passed to on_event, in order.
NoBus ==
    [emitted |-> <<>>, q |-> [s \in Subscribers |-> <<>>],
     got |-> [s \in Subscribers |-> <<>>]]

\* No shutdown was requested and no task runs.
NoShutdown == [phase |-> "serving", live |-> {}, events |-> <<>>]

\* The threads that call make_run_id, and a thread that has not called.
Callers == 1 .. MaxCallers
NoCall == [pc |-> "idle", runner_name |-> <<>>, slot |-> <<>>, n |-> 0, id |-> <<>>]

\* Env::new for the context and for the spec; no task config built.
NoEnv == [ctx |-> <<>>, spec |-> <<>>, cfg |-> None]

\* No request was made.
NoRequest ==
    [via |-> "none", timeout_ms |-> 0,
     backoff |-> [jitter |-> "Unspecified", first_ms |-> 0, max_ms |-> 0, factor |-> 0],
     submitted |-> FALSE, error |-> None]

\* No attempt of a subprocess task is running.
NoProc ==
    [pc |-> "none", fail_on_non_zero |-> FALSE, cgroup |-> "none",
     cancel |-> FALSE, child |-> "none", status |-> None, orphan |-> FALSE,
     readers |-> [r \in {"stdout", "stderr"} |-> "none"],
     result |-> None, trace |-> <<>>]

\* No child was forked.
NoChild ==
    [pc |-> "none", hooks |-> <<>>, config |-> None, rlimit |-> None,
     caps |-> None, cgroup |-> "none", no_new_privs |-> FALSE, dropped |-> None,
     calls |-> <<>>, failed |-> {}, log |-> <<>>, trace |-> <<>>, spawn |-> None]

SideInit ==
    /\ bus = NoBus
    /\ sd = NoShutdown
    /\ proc = NoProc
    /\ api = NoRequest
    /\ env = NoEnv
    /\ ids = [t \in Callers |-> NoCall]
    /\ pre = NoChild

\* The router of the agent: a subprocess runner with a valid backend
\* configuration, registered under its name.
DefaultRouter == register_subprocess_runner_with_backend(<<>>, "t1", TRUE).router

Init ==
    /\ nsub = 0
    /\ seq = 1
    /\ ctl = [n \in Names |-> IdleLane]
    /\ body = [n \in Names |-> NoBody]
    /\ dir = [n \in Names |-> NoTask]
    /\ mon = [n \in Names |-> NoMon]
    /\ bk = BkIdle
    /\ router = DefaultRouter
    /\ ret = NoRet
    /\ trk = [n \in Names |-> NoTrk]
    /\ SideInit

\* What the units and the controller do on their own.
Run ==
    \/ \E n \in Names : Timeout(n)
    \/ \E n \in Names : Cancel(n)
    \/ \E n \in Names, ok \in BOOLEAN : BodySpawn(n, ok)
    \/ \E n \in Names, status \in {"zero", "nonzero", "signal", "waiterr"} :
          BodyExit(n, status)
    \/ \E n \in Names : BodyKill(n)
    \/ \E n \in Names, r \in {"ok", "fail", "canceled"} : FnReturn(n, r)
    \/ \E n \in Names : AttemptEnd(n)
    \/ \E n \in Names : WakeUp(n)
    \/ \E n \in Names : SleepCancelled(n)

Next ==
    \/ \E slot \in Slots, adm \in AdmissionStrategy, rst \in RestartChoices,
          fnz \in BOOLEAN, tmo \in TimeoutsMs : Submit(slot, adm, rst, fnz, tmo)
    \/ \E slot \in Slots, adm \in AdmissionStrategy, rst \in RestartChoices,
          tmo \in TimeoutsMs : SubmitWithTask(slot, adm, rst, tmo)
    \/ Run

Spec == Init /\ [][Next]_vars

\* One lane at a time: a caller that submits a spec only while every lane is
\* idle, and a caller-built unit only while no other lane is busy. The lanes
\* share nothing but the directory and the two counters, so what holds of a
\* lane here is what holds of it among other lanes.
LaneSubmit(slot, adm, rst, fnz, tmo) ==
    /\ \A n \in Names : ctl[n].st = "Idle"
    /\ Submit(slot, adm, rst, fnz, tmo)

LaneSubmitWithTask(slot, adm, rst, tmo) ==
    /\ \A n \in Names \ {PrebuiltName} : ctl[n].st = "Idle"
    /\ SubmitWithTask(slot, adm, rst, tmo)

NextLane ==
    \/ \E slot \in Slots, adm \in AdmissionStrategy, rst \in RestartChoices,
          fnz \in BOOLEAN, tmo \in TimeoutsMs : LaneSubmit(slot, adm, rst, fnz, tmo)
    \/ \E slot \in Slots, adm \in AdmissionStrategy, rst \in RestartChoices,
          tmo \in TimeoutsMs : LaneSubmitWithTask(slot, adm, rst, tmo)
    \/ Run

SpecLane == Init /\ [][NextLane]_vars

\* --------------------------------------------- the router and submit
\* A router that starts empty, callers that register runners in any of the
\* four ways, and callers that submit specs of every kind and runner-tag, a
\* Subprocess spec with every command (the other kinds have none); what the
\* controller does with an admitted unit is left to Spec.
CommandsOf(kind) == IF kind = "subprocess" THEN Commands ELSE {<<>>}

RouterSpecs ==
    UNION {{CreateSpec("a", k, c, FALSE, "Queue", Never, 1500, t) :
               c \in CommandsOf(k), t \in {None} \cup {Some(g) : g \in RunnerTags}} :
           k \in TaskKinds}

InitRouter ==
    /\ nsub = 0
    /\ seq = 1
    /\ ctl = [n \in Names |-> IdleLane]
    /\ body = [n \in Names |-> NoBody]
    /\ dir = [n \in Names |-> NoTask]
    /\ mon = [n \in Names |-> NoMon]
    /\ bk = BkIdle
    /\ router = <<>>
    /\ ret = NoRet
    /\ trk = [n \in Names |-> NoTrk]
    /\ SideInit

NextRouter ==
    \/ \E runner \in Runners : Register(runner)
    \/ \E runner \in Runners, tag \in RunnerTags : RegisterWithLabels(runner, tag)
    \/ \E name \in RunnerTags : RegisterSubprocessRunner(name)
    \/ \E name \in RunnerTags, backend \in Backends :
          RegisterSubprocessRunnerWithBackend(name, backend)
    \/ \E spec \in RouterSpecs : SubmitSpec(spec)

SpecRouter == InitRouter /\ [][NextRouter]_vars

\* ------------------------------------------------- the state tracker
\* The tracker as the subscriber it is: submit adds a task under its fresh
\* id, and the subscriber's worker delivers events one at a time, of any kind,
\* in any order, about either of two tasks or about none, with a reason or
\* without.
TrackedIds == {1, 2}
TrackerEvents ==
    {"TaskAdded", "TaskStarting", "TaskStopped", "TaskFailed", "TimeoutHit",
     "ActorExhausted", "TaskRemoved", "BackoffScheduled"}
Reasons == {None, Some("boom")}

\* The reasons an event of a kind is delivered with.
ReasonsOf(kind) ==
    IF kind \in {"TaskStopped", "TaskFailed", "ActorExhausted"} THEN Reasons ELSE {None}

\* The status an event sets in a task's entry, "none" if it sets none.
StatusAfter(kind) ==
    CASE kind = "TaskStarting" -> "Running"
      [] kind = "TaskStopped" -> "Succeeded"
      [] kind = "TaskFailed" -> "Failed"
      [] kind = "TimeoutHit" -> "Timeout"
      [] kind = "ActorExhausted" -> "Exhausted"
      [] OTHER -> "none"

\* SupervisorApi::submit, as the tracker sees it: the id is fresh and
\* add_task is called by submit and again by submit_with_task.
TrackSubmit(id, slot) ==
    /\ trk[id] = NoTrk
    /\ dir' = add_task(add_task(dir, id, slot), id, slot)
    /\ trk' = [trk EXCEPT ![id] = [added |-> TRUE, live |-> TRUE, starts |-> 0,
                                   last |-> "Pending", task_added |-> FALSE]]
    /\ UNCHANGED <<nsub, seq, ctl, body, mon, bk, router, ret, sideVars>>

\* The subscriber's worker calls on_event with the next event of its queue.
Deliver(e) ==
    /\ (e.task # None /\ e.kind = "TaskStarting") => trk[e.task[1]].starts < MaxAttempts
    /\ dir' = on_event(dir, e)
    /\ trk' = IF e.task = None THEN trk
              ELSE [trk EXCEPT ![e.task[1]] =
                      [@ EXCEPT !.starts = IF e.kind = "TaskStarting" THEN @ + 1 ELSE @,
                                !.last = IF trk[e.task[1]].live
                                            /\ StatusAfter(e.kind) # "none"
                                         THEN StatusAfter(e.kind) ELSE @,
                                !.live = IF e.kind = "TaskRemoved" THEN FALSE ELSE @,
                                !.task_added = (e.kind = "TaskAdded")]]
    /\ UNCHANGED <<nsub, seq, ctl, body, mon, bk, router, ret, sideVars>>

NextTracker ==
    \/ \E id \in TrackedIds, slot \in Slots : TrackSubmit(id, slot)
    \/ \E kind \in TrackerEvents, task \in {None} \cup {Some(id) : id \in TrackedIds} :
       \E reason \in ReasonsOf(kind) :
          Deliver([kind |-> kind, task |-> task, attempt |-> 0, reason |-> reason])

SpecTracker == Init /\ [][NextTracker]_vars

\* ------------------------------------------------- the bus at work
\* Task 1 was submitted, and the controller publishes events about it while
\* the workers of the two subscribers drain their queues at their own pace.
BusEvents == {"TaskStarting", "TaskFailed", "TaskStopped", "TaskRemoved"}

SubscriberOverflow(name) ==
    [kind |-> "SubscriberOverflow", task |-> None, attempt |-> 0, reason |-> Some(name)]

InitBus ==
    /\ nsub = 1
    /\ seq = 2
    /\ ctl = [n \in Names |-> IdleLane]
    /\ body = [n \in Names |-> NoBody]
    /\ dir = add_task(add_task([n \in Names |-> NoTask], 1, "a"), 1, "a")
    /\ mon = [n \in Names |-> NoMon]
    /\ bk = BkIdle
    /\ router = DefaultRouter
    /\ ret = Returned("submit", 1)
    /\ trk = [n \in Names |-> NoTrk]
    /\ SideInit

\* The subscribers whose queue has no room: a push to it would block.
Full(b) == {s \in Subscribers : Len(b.q[s]) >= queue_capacity(s)}

Push_always(b, i) ==
    [b EXCEPT !.q = [s \in Subscribers |-> Append(b.q[s], i)]]

\* try_send of the event at position i to every queue with room.
Push(b, i) ==
    [b EXCEPT !.q = [s \in Subscribers |->
                        IF s \in Full(b) THEN b.q[s] ELSE Append(b.q[s], i)]]

\* The subscribers in a fixed order, for the overflow events of one publish.
RECURSIVE SeqOf(_)
SeqOf(S) == IF S = {} THEN <<>> ELSE LET x == CHOOSE y \in S : TRUE
                                    IN  <<x>> \o SeqOf(S \ {x})

\* Overflow events for the subscribers `names`, each published best-effort:
\* it is pushed where there is room and dropped elsewhere, with no event
\* about that.
RECURSIVE PublishOverflows(_, _)
PublishOverflows(b, names) ==
    IF names = <<>> THEN b
    ELSE LET b1 == [b EXCEPT !.emitted = Append(@, SubscriberOverflow(Head(names)))]
         IN  PublishOverflows(Push(b1, Len(b1.emitted)), Tail(names))

\* Bus::publish: the event is pushed to each subscriber's queue; where the
\* push would block the event is dropped for that subscriber and
\* SubscriberOverflow{name} is published. The publisher does not wait.
publish(b, e) ==
    LET b1 == [b EXCEPT !.emitted = Append(@, e)]
        full == Full(b)
    IN  PublishOverflows(Push(b1, Len(b1.emitted)), SeqOf(full))

Published(b) == Cardinality({i \in 1 .. Len(b.emitted) :
                                b.emitted[i].kind # "SubscriberOverflow"})

\* The controller publishes an event about task 1.
Publish(kind) ==
    /\ Published(bus) < MaxPublished
    /\ bus' = publish(bus, Ev(kind, 1, 0))
    /\ UNCHANGED <<supVars, bk, rtVars, butBus>>

Worker_lifo(s) ==
    /\ bus.q[s] # <<>>
    /\ LET n == Len(bus.q[s])
       IN  /\ bus' = [bus EXCEPT !.q[s] = SubSeq(@, 1, n - 1),
                                 !.got[s] = Append(@, bus.q[s][n])]
           /\ dir' = IF s = "state-subscriber"
                     THEN on_event(dir, bus.emitted[bus.q[s][n]])
                     ELSE dir
    /\ UNCHANGED <<nsub, seq, ctl, body, mon, bk, rtVars, butBus>>

\* The worker of subscriber s takes the event at the head of its queue and
\* calls on_event with it; the tracker's on_event updates the directory.
Worker(s) ==
    /\ bus.q[s] # <<>>
    /\ bus' = [bus EXCEPT !.q[s] = Tail(@), !.got[s] = Append(@, Head(bus.q[s]))]
    /\ dir' = IF s = "state-subscriber"
              THEN on_event(dir, bus.emitted[Head(bus.q[s])])
              ELSE dir
    /\ UNCHANGED <<nsub, seq, ctl, body, mon, bk, rtVars, butBus>>

NextBus ==
    \/ \E kind \in BusEvents : Publish(kind)
    \/ \E s \in Subscribers : Worker(s)

SpecBus == InitBus /\ [][NextBus]_vars

\* ------------------------------------------------------- shutdown
\* The supervisor's run loop at the end of the process: some tasks are
\* running when the signal arrives; all are cancelled at once, and the loop
\* waits for them no longer than the grace period.
Tasks == Names

\* message_for, for the events of a shutdown.
message_for(kind) ==
    CASE kind = "GraceExceeded" -> "grace exceeded; some tasks did not stop in time"
      [] kind = "AllStoppedWithinGrace" -> "all tasks stopped within grace period"
      [] kind = "ShutdownRequested" -> "shutdown requested (OS signal)"
      [] kind = "TaskStopped" -> "task stopped (success or graceful cancel)"
      [] OTHER -> "unknown event"

\* An event of the supervisor as a whole, as the logging subscriber writes
\* it: the message and no task.
SupervisorEvent(kind) == [kind |-> kind, task |-> None, msg |-> message_for(kind)]

\* An event of a task, written with its task field.
TaskEvent(kind, id) == [kind |-> kind, task |-> Some(id), msg |-> message_for(kind)]

InitShutdown ==
    /\ nsub = 0
    /\ seq = 1
    /\ ctl = [n \in Names |-> IdleLane]
    /\ body = [n \in Names |-> NoBody]
    /\ dir = [n \in Names |-> NoTask]
    /\ mon = [n \in Names |-> NoMon]
    /\ bk = BkIdle
    /\ router = DefaultRouter
    /\ ret = NoRet
    /\ trk = [n \in Names |-> NoTrk]
    /\ SideInit

HasStopped(id) ==
    \E i \in 1 .. Len(sd.events) : sd.events[i] = TaskEvent("TaskStopped", id)

\* A task starts running, once: a task id is never used again. None is
\* admitted once shutdown has begun.
TaskRuns(id) ==
    /\ sd.phase = "serving"
    /\ id \notin sd.live
    /\ ~HasStopped(id)
    /\ sd' = [sd EXCEPT !.live = @ \cup {id}]
    /\ UNCHANGED <<mainVars, butSd>>

\* The OS signal: ShutdownRequested is published and every slot is
\* cancelled; the grace period starts.
ShutdownRequested ==
    /\ sd.phase = "serving"
    /\ sd' = [sd EXCEPT !.phase = "draining",
                        !.events = Append(@, SupervisorEvent("ShutdownRequested"))]
    /\ UNCHANGED <<mainVars, butSd>>

\* A task returns: on its own while the supervisor serves, on the cancel
\* during shutdown. Nothing obliges a unit to honour the cancel.
TaskStops(id) ==
    /\ sd.phase \in {"serving", "draining"}
    /\ id \in sd.live
    /\ sd' = [sd EXCEPT !.live = @ \ {id},
                        !.events = Append(@, TaskEvent("TaskStopped", id))]
    /\ UNCHANGED <<mainVars, butSd>>

AllStopped_always ==
    /\ sd.phase = "draining"
    /\ sd' = [sd EXCEPT !.phase = "done",
                        !.events = Append(@, SupervisorEvent("AllStoppedWithinGrace"))]
    /\ UNCHANGED <<mainVars, butSd>>

\* Every task has returned before the grace period ran out.
AllStopped ==
    /\ sd.phase = "draining"
    /\ sd.live = {}
    /\ sd' = [sd EXCEPT !.phase = "done",
                        !.events = Append(@, SupervisorEvent("AllStoppedWithinGrace"))]
    /\ UNCHANGED <<mainVars, butSd>>

\* The grace period ran out with tasks still running.
GraceExpires ==
    /\ sd.phase = "draining"
    /\ sd.live # {}
    /\ sd' = [sd EXCEPT !.phase = "done",
                        !.events = Append(@, SupervisorEvent("GraceExceeded"))]
    /\ UNCHANGED <<mainVars, butSd>>

NextShutdown ==
    \/ \E id \in Tasks : TaskRuns(id)
    \/ ShutdownRequested
    \/ \E id \in Tasks : TaskStops(id)
    \/ AllStopped
    \/ GraceExpires

SpecShutdown == InitShutdown /\ [][NextShutdown]_vars

\* The wait for the tasks is a timeout of the runtime: either it completes
\* or the timer fires.
SpecShutdownFair ==
    SpecShutdown /\ WF_vars(AllStopped) /\ WF_vars(GraceExpires)

\* ----------------------------------- one subprocess attempt, in steps
\* The body that SubprocessRunner::build_task builds, with the child, the
\* descendants the child may leave behind, and the two reader tasks.
Streams == {"stdout", "stderr"}

\* ExitStatus: an exit code, or none when a signal ended the process.
ExitCodes == {0, 1, 7}
ExitStatuses == {<<"code", c>> : c \in ExitCodes} \cup {<<"signal">>}

\* ExitStatus::success and ExitStatus::code
success(status) == status = <<"code", 0>>
code(status) == IF status[1] = "code" THEN Some(status[2]) ELSE None

\* Result<(), TaskError>
OkResult == [kind |-> "Ok", reason |-> None]
Fail(reason) == [kind |-> "Fail", reason |-> Some(reason)]
Fatal(reason) == [kind |-> "Fatal", reason |-> Some(reason)]
Canceled == [kind |-> "Canceled", reason |-> None]

\* format!("process exited with non-zero code: {code}")
non_zero_code(c) == <<"process exited with non-zero code: ", c>>

exit_outcome_any_non_zero(status, fail_on_non_zero) ==
    IF ~success(status)
    THEN Fail(IF code(status) # None THEN non_zero_code(code(status)[1])
              ELSE <<"process terminated by signal">>)
    ELSE OkResult

\* The wait branch of select!, given the status of the child.
exit_outcome(status, fail_on_non_zero) ==
    IF ~success(status) /\ fail_on_non_zero
    THEN Fail(IF code(status) # None THEN non_zero_code(code(status)[1])
              ELSE <<"process terminated by signal">>)
    ELSE OkResult

\* The controller starts an attempt of a subprocess task; cgroup_name is
\* Some when the runner's backend has cgroup limits.
ProcStart(fail_on_non_zero, has_cgroups) ==
    /\ proc.pc = "none"
    /\ proc' = [proc EXCEPT !.pc = "start", !.fail_on_non_zero = fail_on_non_zero,
                            !.cgroup = IF has_cgroups THEN "named" ELSE "none"]
    /\ UNCHANGED <<mainVars, butProc>>

\* The cancel token of the attempt is cancelled.
ProcCancel ==
    /\ proc.pc \in {"start", "select", "join", "cleanup"}
    /\ ~proc.cancel
    /\ proc' = [proc EXCEPT !.cancel = TRUE]
    /\ UNCHANGED <<mainVars, butProc>>

\* apply_to_command and spawn: an error is fatal and returned at once;
\* otherwise the child runs in its cgroup and both readers are spawned.
ProcSpawn(ok) ==
    /\ proc.pc = "start"
    /\ proc' = IF ok
               THEN [proc EXCEPT !.pc = "select", !.child = "alive",
                                 !.cgroup = IF @ = "named" THEN "created" ELSE @,
                                 !.readers = [r \in Streams |-> "reading"]]
               ELSE [proc EXCEPT !.pc = "returned",
                                 !.result = Some(Fatal(<<"spawn failed: ", "e">>)),
                                 !.trace = Append(@, "return")]
    /\ UNCHANGED <<mainVars, butProc>>

\* The child starts a process of its own, which inherits its stdout and
\* stderr and sits in its cgroup.
ChildForks ==
    /\ proc.child = "alive"
    /\ ~proc.orphan
    /\ proc' = [proc EXCEPT !.orphan = TRUE]
    /\ UNCHANGED <<mainVars, butProc>>

\* The child ends by itself.
ChildExits(status) ==
    /\ proc.child = "alive"
    /\ proc' = [proc EXCEPT !.child = "exited", !.status = Some(status)]
    /\ UNCHANGED <<mainVars, butProc>>

\* The process the child left behind ends.
OrphanExits ==
    /\ proc.orphan
    /\ proc.child # "alive"
    /\ proc' = [proc EXCEPT !.orphan = FALSE]
    /\ UNCHANGED <<mainVars, butProc>>

\* Whether some process holds the write end of the child's pipes.
PipesOpen == proc.child = "alive" \/ proc.orphan

\* log_stream: next_line gives None once every write end is closed.
ReaderEnds(r) ==
    /\ proc.readers[r] = "reading"
    /\ ~PipesOpen
    /\ proc' = [proc EXCEPT !.readers[r] = "done"]
    /\ UNCHANGED <<mainVars, butProc>>

\* log_stream: next_line gives an error (a line that is not UTF-8) and the
\* loop breaks.
ReaderBreaks(r) ==
    /\ proc.readers[r] = "reading"
    /\ PipesOpen
    /\ proc' = [proc EXCEPT !.readers[r] = "done"]
    /\ UNCHANGED <<mainVars, butProc>>

\* select!, wait branch: the child has exited.
ProcWait ==
    /\ proc.pc = "select"
    /\ proc.child = "exited"
    /\ proc' = [proc EXCEPT !.pc = "join", !.child = "reaped",
                            !.result = Some(exit_outcome(proc.status[1],
                                                         proc.fail_on_non_zero)),
                            !.trace = Append(@, "wait")]
    /\ UNCHANGED <<mainVars, butProc>>

\* select!, wait branch: wait itself fails, and `?` returns at once.
ProcWaitFails ==
    /\ proc.pc = "select"
    /\ proc' = [proc EXCEPT !.pc = "returned",
                            !.result = Some(Fatal(<<"wait failed: ", "e">>)),
                            !.trace = Append(@, "return")]
    /\ UNCHANGED <<mainVars, butProc>>

ProcKill_return_first ==
    /\ proc.pc = "select"
    /\ proc.cancel
    /\ proc' = [proc EXCEPT !.pc = "returned", !.result = Some(Canceled),
                            !.trace = Append(@, "return")]
    /\ UNCHANGED <<mainVars, butProc>>

\* select!, cancel branch: child.kill().await sends the kill and reaps the
\* child; an error of it is logged and ignored. Only the child is killed.
ProcKill ==
    /\ proc.pc = "select"
    /\ proc.cancel
    /\ proc' = [proc EXCEPT !.pc = "join", !.child = "reaped",
                            !.status = IF proc.child = "alive"
                                       THEN Some(<<"signal">>) ELSE @,
                            !.result = Some(Canceled),
                            !.trace = Append(@, "kill")]
    /\ UNCHANGED <<mainVars, butProc>>

\* tokio::join!(stdout_task, stderr_task) completes once both readers have.
ProcJoin ==
    /\ proc.pc = "join"
    /\ \A r \in Streams : proc.readers[r] = "done"
    /\ proc' = [proc EXCEPT !.pc = "cleanup", !.trace = Append(@, "join")]
    /\ UNCHANGED <<mainVars, butProc>>

\* cleanup_cgroup, if there is a cgroup name, and the return of the result.
\* The directory of a cgroup with a process in it is busy and stays.
ProcFinish ==
    /\ proc.pc = "cleanup"
    /\ proc' = [proc EXCEPT !.pc = "returned",
                            !.cgroup = IF @ = "created" /\ ~proc.orphan
                                       THEN "removed" ELSE @,
                            !.trace = IF proc.cgroup = "none"
                                      THEN Append(@, "return")
                                      ELSE Append(Append(@, "cleanup"), "return")]
    /\ UNCHANGED <<mainVars, butProc>>

\* What the runtime does: the body and the reader tasks.
ProcStep ==
    \/ \E ok \in BOOLEAN : ProcSpawn(ok)
    \/ ProcWait
    \/ ProcWaitFails
    \/ ProcKill
    \/ ProcJoin
    \/ ProcFinish

NextProc ==
    \/ \E f, c \in BOOLEAN : ProcStart(f, c)
    \/ ProcCancel
    \/ ChildForks
    \/ \E status \in ExitStatuses : ChildExits(status)
    \/ OrphanExits
    \/ \E r \in Streams : ReaderEnds(r)
    \/ \E r \in Streams : ReaderBreaks(r)
    \/ ProcStep

SpecProc == Init /\ [][NextProc]_vars

\* The runtime schedules the body and the readers fairly; nothing is assumed
\* of the child and of the processes it starts.
SpecProcFair ==
    /\ SpecProc
    /\ WF_vars(\E ok \in BOOLEAN : ProcSpawn(ok))
    /\ WF_vars(ProcWait \/ ProcKill)
    /\ WF_vars(ProcJoin)
    /\ WF_vars(ProcFinish)
    /\ \A r \in Streams : WF_vars(ReaderEnds(r))

\* ------------------------------------------------- the API services
\* A submit_task request as it arrives: the fields of the CreateSpec that
\* the conversion validates. The kind, the slot and the restart and
\* admission strategies of the requests are valid ones. factor is an f64, of
\* which the sign matters.
WireJitter == {"Unspecified", "None", "Full"}
WireTimeoutsMs == {0, 1500}
WireDelaysMs == {0, 1}
WireFactors == {0 - 1, 0, 2}

WireSpecs ==
    [timeout_ms : WireTimeoutsMs,
     backoff : [jitter : WireJitter, first_ms : WireDelaysMs,
                max_ms : WireDelaysMs, factor : WireFactors]]

InvalidRequest(msg) == Some([type |-> "InvalidRequest", msg |-> msg])

\* convert_backoff_strategy: the error it returns, or None.
convert_backoff_strategy(backoff) ==
    CASE backoff.jitter = "Unspecified" -> InvalidRequest("jitter strategy not specified")
      [] backoff.first_ms = 0 -> InvalidRequest("backoff first_ms cannot be zero")
      [] backoff.max_ms = 0 -> InvalidRequest("backoff max_ms cannot be zero")
      [] backoff.factor <= 0 -> InvalidRequest("backoff factor must be positive")
      [] OTHER -> None

\* validate_timeout: the error it returns, or None.
validate_timeout(timeout_ms) ==
    IF timeout_ms = 0 THEN InvalidRequest("timeout_ms cannot be zero") ELSE None

\* TryFrom<proto::CreateSpec> for CreateSpec: the first error, or None.
try_from(wire) ==
    IF validate_timeout(wire.timeout_ms) # None
    THEN validate_timeout(wire.timeout_ms)
    ELSE convert_backoff_strategy(wire.backoff)

\* The CreateSpec of a request: a subprocess that runs `ls` in slot a.
SpecOf(wire) ==
    CreateSpec("a", "subprocess", <<"l", "s">>, TRUE, "Queue", Never,
               wire.timeout_ms, None)

Request(via, wire, submitted, error) ==
    [via |-> via, timeout_ms |-> wire.timeout_ms, backoff |-> wire.backoff,
     submitted |-> submitted, error |-> error]

\* gRPC submit_task: the proto message is converted, which validates it,
\* and the handler is called with the result.
GrpcSubmitTask(wire) ==
    IF try_from(wire) # None
    THEN /\ api' = Request("grpc", wire, FALSE, try_from(wire))
         /\ UNCHANGED <<mainVars, butApi>>
    ELSE /\ submit(SpecOf(wire))
         /\ api' = Request("grpc", wire, TRUE, None)
         /\ UNCHANGED butApi

\* HTTP submit_task: the JSON body is deserialized into a CreateSpec, which
\* has no unspecified jitter, and the handler is called with it.
HttpSubmitTask(wire) ==
    IF wire.backoff.jitter = "Unspecified"
    THEN /\ api' = Request("http", wire, FALSE,
                           Some([type |-> "JsonRejection", msg |-> "unknown variant"]))
         /\ UNCHANGED <<mainVars, butApi>>
    ELSE /\ submit(SpecOf(wire))
         /\ api' = Request("http", wire, TRUE, None)
         /\ UNCHANGED butApi

NextApi ==
    \/ \E wire \in WireSpecs : GrpcSubmitTask(wire)
    \/ \E wire \in WireSpecs : HttpSubmitTask(wire)

SpecApi == Init /\ [][NextApi]_vars

\* ------------------------------------------------------ environments
EnvKeys == {"FOO", "BAR"}
EnvValues == {"one", "two"}

\* KeyValue::new
KeyValue(key, value) == [key |-> key, value |-> value]

RECURSIVE Env_get_first(_, _)
Env_get_first(e, key) ==
    IF e = <<>> THEN None
    ELSE IF Head(e).key = key THEN Some(Head(e).value)
    ELSE Env_get_first(Tail(e), key)

\* Env::get: iter().rev().find(key).map(value)
RECURSIVE Env_get(_, _)
Env_get(e, key) ==
    IF e = <<>> THEN None
    ELSE IF e[Len(e)].key = key THEN Some(e[Len(e)].value)
    ELSE Env_get(SubSeq(e, 1, Len(e) - 1), key)

\* Env::push
Env_push(e, key, value) == Append(e, KeyValue(key, value))

merged_base_last(a, b) == b \o a

\* Env::merged: a clone of self extended with a clone of other.
merged(a, b) == a \o b

\* The build context's environment is filled.
CtxPush(key, value) ==
    /\ env.cfg = None
    /\ Len(env.ctx) < MaxEnvLen
    /\ env' = [env EXCEPT !.ctx = Env_push(@, key, value)]
    /\ UNCHANGED <<mainVars, butEnv>>

\* The environment of a spec's subprocess kind is filled.
SpecPush(key, value) ==
    /\ env.cfg = None
    /\ Len(env.spec) < MaxEnvLen
    /\ env' = [env EXCEPT !.spec = Env_push(@, key, value)]
    /\ UNCHANGED <<mainVars, butEnv>>

\* build_task_config: env: ctx.env().merged(env)
BuildTaskConfig ==
    /\ env.cfg = None
    /\ env' = [env EXCEPT !.cfg = Some(merged(env.ctx, env.spec))]
    /\ UNCHANGED <<mainVars, butEnv>>

NextEnv ==
    \/ \E key \in EnvKeys, value \in EnvValues : CtxPush(key, value)
    \/ \E key \in EnvKeys, value \in EnvValues : SpecPush(key, value)
    \/ BuildTaskConfig

SpecEnv == Init /\ [][NextEnv]_vars

\* ---------------------------------------------------------- run ids
\* Strings are sequences of characters here: runner names and slots may
\* hold the separator of the format themselves.
RunnerNames == {<<"r">>, <<"r", "-", "a">>}
SlotNames == {<<"a">>, <<"a", "-", "1">>}

HexDigits == <<"0", "1", "2", "3", "4", "5", "6", "7", "8", "9",
               "a", "b", "c", "d", "e", "f">>

\* format!("{:x}", n)
RECURSIVE hex(_)
hex(n) ==
    IF n < 16 THEN <<HexDigits[n + 1]>>
    ELSE hex(n \div 16) \o <<HexDigits[(n % 16) + 1]>>

\* format!("{runner_name}-{slot}-{seq:x}")
format_run_id(runner_name, slot, n) ==
    runner_name \o <<"-">> \o slot \o <<"-">> \o hex(n)

next_seq_load(t, runner_name, slot) ==
    /\ ids[t].pc = "idle"
    /\ ids' = [ids EXCEPT ![t] = [pc |-> "format", runner_name |-> runner_name,
                                  slot |-> slot, n |-> seq, id |-> <<>>]]
    /\ seq' = IF \E u \in Callers : ids[u].pc = "format" THEN seq ELSE seq + 1
    /\ UNCHANGED <<nsub, ctl, body, dir, mon, bk, rtVars, butIds>>

\* make_run_id, first step: next_seq, RUN_SEQ.fetch_add(1, Relaxed), one
\* atomic read-modify-write whatever the ordering. The counter wraps after
\* 2^64 calls, which no run reaches.
next_seq(t, runner_name, slot) ==
    /\ ids[t].pc = "idle"
    /\ ids' = [ids EXCEPT ![t] = [pc |-> "format", runner_name |-> runner_name,
                                  slot |-> slot, n |-> seq, id |-> <<>>]]
    /\ seq' = seq + 1
    /\ UNCHANGED <<nsub, ctl, body, dir, mon, bk, rtVars, butIds>>

\* make_run_id, second step: the id is formatted and returned.
make_run_id(t) ==
    /\ ids[t].pc = "format"
    /\ ids' = [ids EXCEPT ![t].pc = "done",
                          ![t].id = format_run_id(ids[t].runner_name, ids[t].slot,
                                                  ids[t].n)]
    /\ UNCHANGED <<mainVars, butIds>>

NextIds ==
    \/ \E t \in Callers, r \in RunnerNames, sl \in SlotNames : next_seq(t, r, sl)
    \/ \E t \in Callers : make_run_id(t)

SpecIds == Init /\ [][NextIds]_vars

\* ---- the cgroup name of a built task
\* run_id.rsplit('-').next(): what follows the last '-' of the run id, the
\* whole of it when it has none.
RECURSIVE rsplit_next(_)
rsplit_next(run_id) ==
    IF run_id = <<>> \/ run_id[Len(run_id)] = "-" THEN <<>>
    ELSE Append(rsplit_next(SubSeq(run_id, 1, Len(run_id) - 1)), run_id[Len(run_id)])

\* run_id.split('-'): its segments from the left.
RECURSIVE split(_)
split(run_id) ==
    IF \A i \in 1..Len(run_id) : run_id[i] # "-" THEN <<run_id>>
    ELSE LET i == CHOOSE j \in 1..Len(run_id) :
                      run_id[j] = "-" /\ \A k \in 1..(j - 1) : run_id[k] # "-"
         IN  <<SubSeq(run_id, 1, i - 1)>> \o split(SubSeq(run_id, i + 1, Len(run_id)))

\* u64::from_str_radix(s, 16) of a string of lower-case digits: Err (None) for
\* the empty string and for a character that is no digit.
RECURSIVE from_str_radix(_)
from_str_radix(s) ==
    IF s = <<>> \/ \E i \in 1..Len(s) : \A d \in 1..16 : HexDigits[d] # s[i] THEN None
    ELSE LET d == (CHOOSE j \in 1..16 : HexDigits[j] = s[Len(s)]) - 1
         IN  IF Len(s) = 1 THEN Some(d)
             ELSE Some(16 * from_str_radix(SubSeq(s, 1, Len(s) - 1))[1] + d)

\* The sequence is read from the third segment of the run id.
extract_seq_third_segment(run_id) ==
    LET parsed == IF Len(split(run_id)) >= 3 THEN from_str_radix(split(run_id)[3])
                  ELSE None
    IN  IF parsed = None THEN 0 ELSE parsed[1]

extract_seq_from_run_id(run_id) ==
    LET parsed == from_str_radix(rsplit_next(run_id))
    IN  IF parsed = None THEN 0 ELSE parsed[1]

\* format!("{}-{}-{:x}-{:x}", runner_tag, slot, seq, timestamp)
build_cgroup_name(tag, slot, n, timestamp) ==
    tag \o <<"-">> \o slot \o <<"-">> \o hex(n) \o <<"-">> \o hex(timestamp)

\* The numbers of run ids made earlier in the process, and the seconds of
\* the clock when a task is built.
EarlierRunIds == {9, 15, 254}
Timestamps == {0, 26}

\* The process has made k run ids before the ones followed.
EarlierRuns(k) ==
    /\ seq = 1
    /\ \A t \in Callers : ids[t].pc = "idle"
    /\ seq' = seq + k
    /\ UNCHANGED <<nsub, ctl, body, dir, mon, bk, rtVars, sideVars>>

\* SubprocessRunner::build_task, the name of the cgroup of a runner with
\* cgroups: runner name, slot, the sequence read back from the run id, and
\* the time.
BuildCgroupName(t, timestamp) ==
    /\ ids[t].pc = "done"
    /\ ids' = [ids EXCEPT ![t] =
                  [pc |-> "named", runner_name |-> ids[t].runner_name,
                   slot |-> ids[t].slot, n |-> ids[t].n, id |-> ids[t].id,
                   cgroup_name |-> build_cgroup_name(ids[t].runner_name, ids[t].slot,
                                                     extract_seq_from_run_id(ids[t].id),
                                                     timestamp),
                   timestamp |-> timestamp]]
    /\ UNCHANGED <<mainVars, butIds>>

\* Two of the callers build a task each.
NextCgroupName ==
    \/ \E k \in EarlierRunIds : EarlierRuns(k)
    \/ \E t \in 1..2, r \in RunnerNames, sl \in SlotNames : next_seq(t, r, sl)
    \/ \E t \in 1..2 : make_run_id(t)
    \/ \E t \in 1..2, timestamp \in Timestamps : BuildCgroupName(t, timestamp)

SpecCgroupName == Init /\ [][NextCgroupName]_vars

\* ------------------------------------------ the child between fork and exec
\* The isolation of a subprocess is applied by pre_exec closures that the
\* child runs after fork and before exec, in the order of their registration;
\* a closure that returns Err ends the child, no later closure runs, the
\* program is not executed and Command::spawn returns the error.  `pre` is
\* that child: the closures still to run, the kernel's limits and capability
\* sets of the process, what it wrote to stderr and the steps it took.  What
\* the kernel answers to a system call is an input of each closure: `denied`
\* is the set of calls that fail in the child's environment.

\* RLIM_INFINITY is rlim_t::MAX on Linux.
RLIM_INFINITY == RlimMax

\* The resources in the order attach_rlimits applies them.
Resources == <<"NOFILE", "FSIZE", "CORE">>

\* struct rlimit: the pairs the kernel can hold.
Rlimits ==
    {l \in [rlim_cur : 0..RlimMax, rlim_max : 0..RlimMax] : l.rlim_cur <= l.rlim_max}

\* Capability numbers of <linux/capability.h>.
CAP_LAST_CAP == 63
CAP_SETPCAP == 8
CAP_NET_BIND_SERVICE == 10
CAP_SYS_RESOURCE == 24
\* The last capability the running kernel knows (CAP_CHECKPOINT_RESTORE).
KernelLastCap == 40

to_cap_value(cap) ==
    CASE cap = "Chown" -> 0
      [] cap = "DacOverride" -> 1
      [] cap = "DacReadSearch" -> 2
      [] cap = "Fowner" -> 3
      [] cap = "Fsetid" -> 4
      [] cap = "Kill" -> 5
      [] cap = "Setgid" -> 6
      [] cap = "Setuid" -> 7
      [] cap = "Setpcap" -> CAP_SETPCAP
      [] cap = "NetBindService" -> CAP_NET_BIND_SERVICE
      [] cap = "NetRaw" -> 13
      [] cap = "NetAdmin" -> 12
      [] cap = "SysChroot" -> 18
      [] cap = "SysPtrace" -> 19
      [] cap = "SysAdmin" -> 21
      [] cap = "SysBoot" -> 22
      [] cap = "SysNice" -> 23
      [] cap = "SysResource" -> CAP_SYS_RESOURCE
      [] cap = "SysTime" -> 25
      [] cap = "Mknod" -> 27
      [] cap = "AuditWrite" -> 29
      [] cap = "AuditControl" -> 30
      [] cap = "Setfcap" -> 31

\* The capability sets a forked child can start with: those of root, those
\* of an unprivileged process, and a partial grant (a capability can be
\* inheritable without being permitted).
CapStates ==
    {[effective |-> 0..KernelLastCap, permitted |-> 0..KernelLastCap,
      inheritable |-> {}, ambient |-> {}],
     [effective |-> {}, permitted |-> {}, inheritable |-> {}, ambient |-> {}],
     [effective |-> {CAP_NET_BIND_SERVICE, CAP_SYS_RESOURCE},
      permitted |-> {CAP_NET_BIND_SERVICE, 12, CAP_SYS_RESOURCE},
      inheritable |-> {CAP_NET_BIND_SERVICE, KernelLastCap},
      ambient |-> {CAP_NET_BIND_SERVICE}]}

\* The backend configurations of a runner.
RlimitConfigs ==
    [max_open_files : {None} \cup {Some(v) : v \in 0..(RlimMax + 1)},
     max_file_size_bytes : {None, Some(1)},
     disable_core_dumps : BOOLEAN]
CgroupConfigs == [cpu : {None}, memory : {None, Some(1)}, pids : {None}]
SecurityConfigs ==
    [drop_all_caps : BOOLEAN,
     keep_caps : {<<>>, <<"NetBindService", "SysChroot">>},
     no_new_privs : BOOLEAN]

\* The children followed: every rlimit configuration on every pair of limits
\* under a backend without security, and every cgroup and security
\* configuration under one rlimit configuration and one pair of limits.
Children ==
    [config : [rlimits : {None} \cup {Some(c) : c \in RlimitConfigs},
               cgroups : {None, Some([cpu |-> None, memory |-> Some(1), pids |-> None])},
               security : {None}],
     lim : Rlimits,
     caps : CapStates]
    \cup
    [config : [rlimits : {None, Some([max_open_files |-> Some(1),
                                      max_file_size_bytes |-> None,
                                      disable_core_dumps |-> TRUE])},
               cgroups : {None} \cup {Some(c) : c \in CgroupConfigs},
               security : {None} \cup {Some(c) : c \in SecurityConfigs}],
     lim : {[rlim_cur |-> 1, rlim_max |-> RlimMax]},
     caps : CapStates]

RlimitConfig_is_empty(c) ==
    c.max_open_files = None /\ c.max_file_size_bytes = None /\ ~c.disable_core_dumps
CgroupLimits_is_empty(c) == c.cpu = None /\ c.memory = None /\ c.pids = None
SecurityConfig_is_empty(c) ==
    ~c.drop_all_caps /\ c.keep_caps = <<>> /\ ~c.no_new_privs

\* The closures in the order security, rlimits, cgroups.
apply_to_command_security_first(config) ==
    (IF config.security # None /\ ~SecurityConfig_is_empty(config.security[1])
     THEN <<"security">> ELSE <<>>)
    \o (IF config.rlimits # None /\ ~RlimitConfig_is_empty(config.rlimits[1])
        THEN <<"rlimits">> ELSE <<>>)
    \o (IF config.cgroups # None /\ ~CgroupLimits_is_empty(config.cgroups[1])
        THEN <<"cgroups">> ELSE <<>>)

\* The closures apply_to_command registers on the command, in order:
\* attach_rlimits, attach_cgroup, attach_security, each of which registers
\* nothing for an empty configuration.
apply_to_command(config) ==
    (IF config.rlimits # None /\ ~RlimitConfig_is_empty(config.rlimits[1])
     THEN <<"rlimits">> ELSE <<>>)
    \o (IF config.cgroups # None /\ ~CgroupLimits_is_empty(config.cgroups[1])
        THEN <<"cgroups">> ELSE <<>>)
    \o (IF config.security # None /\ ~SecurityConfig_is_empty(config.security[1])
        THEN <<"security">> ELSE <<>>)

\* fork: the child starts with the limits and capabilities of its parent and
\* the closures of the command.
Fork(config, lim, caps) ==
    /\ pre.pc = "none"
    /\ pre' = [pre EXCEPT !.pc = "hooks", !.hooks = apply_to_command(config),
                          !.config = Some(config),
                          !.rlimit = [r \in {"NOFILE", "FSIZE", "CORE"} |-> lim],
                          !.caps = caps]
    /\ UNCHANGED <<mainVars, butPre>>

\* ---- rlimits
\* setrlimit(2): EINVAL for soft > hard, EPERM for raising the hard limit
\* without CAP_SYS_RESOURCE.
setrlimit(rlimit, resource, rlim, capable, denied) ==
    IF \/ "setrlimit" \in denied
       \/ rlim.rlim_cur > rlim.rlim_max
       \/ (rlim.rlim_max > rlimit[resource].rlim_max /\ ~capable)
    THEN [ok |-> FALSE, rlimit |-> rlimit]
    ELSE [ok |-> TRUE, rlimit |-> [rlimit EXCEPT ![resource] = rlim]]

\* The record of one call of apply_rlimit.
RlimitCall(resource, value, before, r) ==
    [resource |-> resource, value |-> value, before |-> before,
     after |-> r.rlimit[resource], ok |-> r.ok]

\* The hard limit is set to the requested value.
apply_rlimit_hard_is_soft(rlimit, resource, value, capable, denied) ==
    IF value > RlimMax
    THEN [ok |-> FALSE, rlimit |-> rlimit,
          log |-> <<"rlimit value exceeds platform maximum">>]
    ELSE IF "getrlimit" \in denied
    THEN [ok |-> FALSE, rlimit |-> rlimit, log |-> <<>>]
    ELSE LET s == setrlimit(rlimit, resource,
                            [rlim_cur |-> value, rlim_max |-> value],
                            capable, denied)
         IN  [ok |-> s.ok, rlimit |-> s.rlimit, log |-> <<>>]

apply_rlimit(rlimit, resource, value, capable, denied) ==
    IF value > RlimMax
    THEN [ok |-> FALSE, rlimit |-> rlimit,
          log |-> <<"rlimit value exceeds platform maximum">>]
    ELSE IF "getrlimit" \in denied
    THEN [ok |-> FALSE, rlimit |-> rlimit, log |-> <<>>]
    ELSE LET current == rlimit[resource]
             new_soft == value
             new_hard == IF current.rlim_max = RLIM_INFINITY THEN RLIM_INFINITY
                         ELSE IF current.rlim_max > new_soft THEN current.rlim_max
                         ELSE new_soft
             s == setrlimit(rlimit, resource,
                            [rlim_cur |-> new_soft, rlim_max |-> new_hard],
                            capable, denied)
         IN  [ok |-> s.ok, rlimit |-> s.rlimit, log |-> <<>>]

\* What the closure of attach_rlimits applies: max_open_files, then
\* max_file_size_bytes, then 0 for the core size.
RlimitSteps(c) ==
    (IF c.max_open_files # None THEN <<<<"NOFILE", c.max_open_files[1]>>>> ELSE <<>>)
    \o (IF c.max_file_size_bytes # None
        THEN <<<<"FSIZE", c.max_file_size_bytes[1]>>>> ELSE <<>>)
    \o (IF c.disable_core_dumps THEN <<<<"CORE", 0>>>> ELSE <<>>)

\* The closure of attach_rlimits on the child k: the first failure is
\* written to stderr and returned.
RECURSIVE attach_rlimits(_, _, _, _)
attach_rlimits(k, steps, capable, denied) ==
    IF steps = <<>> THEN k
    ELSE LET resource == Head(steps)[1]
             value == Head(steps)[2]
             r == apply_rlimit(k.rlimit, resource, value, capable, denied)
             k1 == [k EXCEPT !.rlimit = r.rlimit, !.log = @ \o r.log,
                             !.calls = Append(@, RlimitCall(resource, value,
                                                            k.rlimit[resource], r))]
         IN  IF r.ok THEN attach_rlimits(k1, Tail(steps), capable, denied)
             ELSE [k1 EXCEPT !.ok = FALSE,
                             !.log = Append(@, <<"failed to set RLIMIT_", resource>>)]

\* The child returns Err from a closure: it ends without exec.
HookFails(p) == [p EXCEPT !.pc = "failed", !.spawn = Some("Err")]

\* The child is past its first closure.
HookDone(p) == [p EXCEPT !.hooks = Tail(@)]

RlimitsHook(denied) ==
    /\ pre.pc = "hooks"
    /\ pre.hooks # <<>>
    /\ Head(pre.hooks) = "rlimits"
    /\ LET k == attach_rlimits([ok |-> TRUE, rlimit |-> pre.rlimit, log |-> <<>>,
                                calls |-> <<>>],
                               RlimitSteps(pre.config[1].rlimits[1]),
                               CAP_SYS_RESOURCE \in pre.caps.effective, denied)
           p == [pre EXCEPT !.rlimit = k.rlimit, !.log = @ \o k.log,
                            !.calls = @ \o k.calls,
                            !.trace = Append(@, "rlimits"),
                            !.failed = IF k.ok THEN @ ELSE @ \cup {"rlimits"}]
       IN  pre' = IF k.ok THEN HookDone(p) ELSE HookFails(p)
    /\ UNCHANGED <<mainVars, butPre>>

\* ---- cgroups
\* The closure of attach_cgroup: whatever fails (no cgroup v2, the creation
\* of the directory, the writing of the limits, the writing of the pid) is
\* written to stderr and the closure returns Ok.
CgroupOutcomes == {"no_v2", "create_dir", "apply_limits", "add_self", "ok"}

cgroup_log(outcome) ==
    CASE outcome = "no_v2" ->
            <<"cgroup v2 not detected at /sys/fs/cgroup; limits will be ignored">>
      [] outcome = "create_dir" ->
            <<"failed to create cgroup directory; limits will be ignored">>
      [] outcome = "apply_limits" ->
            <<"failed to apply cgroup limits; limits will be ignored">>
      [] outcome = "add_self" ->
            <<"failed to attach PID to cgroup; limits will be ignored">>
      [] outcome = "ok" -> <<>>

CgroupHook(outcome) ==
    /\ pre.pc = "hooks"
    /\ pre.hooks # <<>>
    /\ Head(pre.hooks) = "cgroups"
    /\ pre' = HookDone([pre EXCEPT
                  !.cgroup = CASE outcome \in {"no_v2", "create_dir"} -> "none"
                               [] outcome \in {"apply_limits", "add_self"} -> "created"
                               [] outcome = "ok" -> "attached",
                  !.log = @ \o cgroup_log(outcome),
                  !.trace = Append(@, "cgroups"),
                  !.failed = IF outcome = "ok" THEN @ ELSE @ \cup {"cgroups"}])
    /\ UNCHANGED <<mainVars, butPre>>

\* ---- security
\* capset(2) on the calling process: the new permitted set is within the
\* old one, the new effective set within the new permitted set, and without
\* CAP_SETPCAP the new inheritable set within the old inheritable and
\* permitted sets.  The ambient set follows the permitted and inheritable.
capset(caps, new, denied) ==
    IF \/ "capset" \in denied
       \/ ~(new.permitted \subseteq caps.permitted)
       \/ ~(new.effective \subseteq new.permitted)
       \/ /\ CAP_SETPCAP \notin caps.effective
          /\ ~(new.inheritable \subseteq (caps.inheritable \cup caps.permitted))
    THEN [ok |-> FALSE, caps |-> caps]
    ELSE [ok |-> TRUE,
          caps |-> [new EXCEPT !.ambient = @ \cap new.permitted \cap new.inheritable]]

drop_cap(caps, cap, set, denied) ==
    IF "capget" \in denied THEN [ok |-> FALSE, caps |-> caps]
    ELSE IF cap \div 32 >= 2 THEN [ok |-> TRUE, caps |-> caps]
    ELSE capset(caps, [caps EXCEPT ![set] = @ \ {cap}], denied)

raise_cap(caps, cap, set, denied) ==
    IF "capget" \in denied THEN [ok |-> FALSE, caps |-> caps]
    ELSE IF cap \div 32 >= 2 THEN [ok |-> TRUE, caps |-> caps]
    ELSE capset(caps, [caps EXCEPT ![set] = @ \cup {cap}], denied)

\* prctl(PR_CAP_AMBIENT, PR_CAP_AMBIENT_CLEAR_ALL): EINVAL of a kernel without
\* ambient capabilities is not an error.
clear_ambient_caps(caps, denied) ==
    IF "prctl_ambient" \in denied THEN [ok |-> FALSE, caps |-> caps]
    ELSE IF "ambient_unsupported" \in denied THEN [ok |-> TRUE, caps |-> caps]
    ELSE [ok |-> TRUE, caps |-> [caps EXCEPT !.ambient = {}]]

\* CapabilityMask of keep_caps: set ignores the values from 128.
keep_mask(keep_caps) ==
    {to_cap_value(keep_caps[i]) : i \in 1..Len(keep_caps)} \cap 0..127

\* Step 3 of drop_capabilities from cap_value to `last`: each capability
\* outside the mask is dropped from the effective, the permitted and the
\* inheritable set; an error of a drop is ignored (`errors` counts them).
RECURSIVE drop_from(_, _, _, _, _)
drop_from(d, cap_value, last, mask, denied) ==
    IF d.errors \in BOOLEAN /\ cap_value > last THEN d
    ELSE IF cap_value \in mask THEN drop_from(d, cap_value + 1, last, mask, denied)
    ELSE LET e == drop_cap(d.caps, cap_value, "effective", denied)
             p == drop_cap(e.caps, cap_value, "permitted", denied)
             i == drop_cap(p.caps, cap_value, "inheritable", denied)
         IN  drop_from([d EXCEPT !.caps = i.caps,
                                 !.errors = @ \/ ~e.ok \/ ~p.ok \/ ~i.ok],
                       cap_value + 1, last, mask, denied)

\* Step 4 of drop_capabilities: each kept capability is raised in the
\* effective set; an error of a raise is ignored.
RECURSIVE raise_kept(_, _, _)
raise_kept(caps, keep_caps, denied) ==
    IF keep_caps = <<>> THEN caps
    ELSE raise_kept(raise_cap(caps, to_cap_value(Head(keep_caps)), "effective",
                              denied).caps,
                    Tail(keep_caps), denied)

\* The walk ends at capability 31, the last of the first word.
drop_capabilities_first_word(caps, keep_caps, denied) ==
    LET a == clear_ambient_caps(caps, denied)
    IN  IF ~a.ok THEN [ok |-> FALSE, caps |-> caps, errors |-> TRUE]
        ELSE LET d == drop_from([caps |-> a.caps, errors |-> FALSE], 0,
                                31, keep_mask(keep_caps), denied)
             IN  [ok |-> TRUE, caps |-> raise_kept(d.caps, keep_caps, denied),
                  errors |-> d.errors]

drop_capabilities(caps, keep_caps, denied) ==
    LET a == clear_ambient_caps(caps, denied)
    IN  IF ~a.ok THEN [ok |-> FALSE, caps |-> caps, errors |-> TRUE]
        ELSE LET d == drop_from([caps |-> a.caps, errors |-> FALSE], 0,
                                CAP_LAST_CAP, keep_mask(keep_caps), denied)
             IN  [ok |-> TRUE, caps |-> raise_kept(d.caps, keep_caps, denied),
                  errors |-> d.errors]

\* prctl(PR_SET_NO_NEW_PRIVS, 1)
apply_no_new_privs(denied) == "prctl_nnp" \notin denied

\* The closure of attach_security: the capabilities are dropped first, an
\* Err of drop_capabilities is written to stderr and the closure goes on;
\* then no_new_privs is set, whose error is returned.
SecurityHook(denied) ==
    /\ pre.pc = "hooks"
    /\ pre.hooks # <<>>
    /\ Head(pre.hooks) = "security"
    /\ LET cfg == pre.config[1].security[1]
           d == IF cfg.drop_all_caps
                THEN drop_capabilities(pre.caps, cfg.keep_caps, denied)
                ELSE [ok |-> TRUE, caps |-> pre.caps, errors |-> FALSE]
           nnp == ~cfg.no_new_privs \/ apply_no_new_privs(denied)
           p == [pre EXCEPT
                   !.caps = d.caps,
                   !.dropped = IF cfg.drop_all_caps THEN Some(d.ok /\ ~d.errors) ELSE @,
                   !.no_new_privs = cfg.no_new_privs /\ nnp,
                   !.log = @ \o (IF ~d.ok
                                 THEN <<"failed to drop capabilities (continuing)">>
                                 ELSE <<>>),
                   !.trace = @ \o (IF cfg.drop_all_caps THEN <<"capabilities">> ELSE <<>>)
                               \o (IF cfg.no_new_privs THEN <<"no_new_privs">> ELSE <<>>),
                   !.failed = (@ \cup (IF d.ok /\ ~d.errors THEN {} ELSE {"capabilities"}))
                                 \cup (IF nnp THEN {} ELSE {"no_new_privs"})]
       IN  pre' = IF nnp THEN HookDone(p) ELSE HookFails(p)
    /\ UNCHANGED <<mainVars, butPre>>

\* exec: every closure returned Ok; the program runs and spawn returns the child.
Exec ==
    /\ pre.pc = "hooks"
    /\ pre.hooks = <<>>
    /\ pre' = [pre EXCEPT !.pc = "exec", !.spawn = Some("Ok"),
                          !.trace = Append(@, "exec")]
    /\ UNCHANGED <<mainVars, butPre>>

\* The system calls one closure can be denied in the child's environment.
DeniedSets ==
    {{}, {"getrlimit"}, {"setrlimit"}, {"prctl_ambient"}, {"ambient_unsupported"},
     {"capget"}, {"capset"}, {"prctl_nnp"}}

NextPre ==
    \/ \E c \in Children : Fork(c.config, c.lim, c.caps)
    \/ \E denied \in DeniedSets : RlimitsHook(denied)
    \/ \E outcome \in CgroupOutcomes : CgroupHook(outcome)
    \/ \E denied \in DeniedSets : SecurityHook(denied)
    \/ Exec

SpecPre == Init /\ [][NextPre]_vars

\* ------------------------------------------- the schedule of restarts
\* One submission followed through its attempts: bk.strategy and bk.restart
\* are the BackoffStrategy and RestartStrategy of the submitted spec, k the
\* attempt that ends next, prev the delay the backoff law gave last (first_ms
\* before it gave one), delay the delay scheduled last, after the outcome of
\* the attempt it was scheduled after and at that attempt's number.
FirstMs == {1, 2, 5}
MaxMs == {1, 4, 8}
Factors == {1, 2, 3}
IntervalsMs == {3, 2500}

BackoffStrategies ==
    [jitter : JitterStrategy, first_ms : FirstMs, max_ms : MaxMs, factor : Factors]

RestartStrategies == {OnFailure, Always(None)} \cup {Always(Some(i)) : i \in IntervalsMs}

InitBackoff ==
    /\ nsub = 0
    /\ seq = 1
    /\ ctl = [n \in Names |-> IdleLane]
    /\ body = [n \in Names |-> NoBody]
    /\ dir = [n \in Names |-> NoTask]
    /\ mon = [n \in Names |-> NoMon]
    /\ router = DefaultRouter
    /\ ret = NoRet
    /\ trk = [n \in Names |-> NoTrk]
    /\ SideInit
    /\ \E s \in BackoffStrategies, r \in RestartStrategies :
          bk = [phase |-> "on", strategy |-> s, restart |-> r, k |-> 1,
                prev |-> s.first_ms, delay |-> 0, after |-> "none", at |-> 0]

\* Controller: attempt k ends with outcome o and the submission is restarted
\* after a delay the restart policy and the backoff law give.
ScheduleRestart(o) ==
    /\ bk.phase = "on"
    /\ bk.k <= MaxK
    /\ LET ts == ControllerSpecOf(PrebuiltName,
                     [TaskPolicy("a", "Queue", bk.restart, 1500)
                         EXCEPT !.backoff = bk.strategy]).task_spec
       IN  /\ ShouldRestart(ts.restart, o)
           /\ \E d \in RestartDelays(ts.restart, ts.backoff, o, bk.k, bk.prev) :
                 bk' = [bk EXCEPT !.k = @ + 1, !.delay = d, !.after = o, !.at = bk.k,
                                  !.prev = IF o = "Success" THEN @ ELSE d]
    /\ UNCHANGED <<supVars, rtVars, sideVars>>

NextBackoff ==
    \E o \in TaskOutcome : ScheduleRestart(o)

SpecBackoff == InitBackoff /\ [][NextBackoff]_vars

\* ---------------------------------------------------------- properties
\* The lanes with a running attempt submitted for slot `slot`.
RunningIn(slot) == {n \in Names : ctl[n].phase = "run" /\ ctl[n].cur.slot = slot}

\* The lanes holding a submission of slot `slot`, running or between attempts.
BusyIn(slot) == {n \in Names : ctl[n].st # "Idle" /\ ctl[n].cur.slot = slot}

\* A submit or submit_with_task call for `slot` with admission `adm`.
SubmitStep(slot, adm) ==
    \E rst \in RestartChoices, tmo \in TimeoutsMs :
        \/ \E fnz \in BOOLEAN : Submit(slot, adm, rst, fnz, tmo)
        \/ SubmitWithTask(slot, adm, rst, tmo)

\* C1: at most one attempt per slot runs at any time: no two lanes have a
\* running attempt submitted for the same slot.
C1_OneRunningAttemptPerSlot ==
    \A slot \in Slots : Cardinality(RunningIn(slot)) <= 1

C3_DropIfRunningRejects ==
    [][\A slot \in Slots :
          (SubmitStep(slot, "DropIfRunning") /\ RunningIn(slot) # {})
          => /\ UNCHANGED <<ctl, body>>
             /\ \E n \in Names : mon'[n].last = "ControllerRejected"]_vars

\* C4: a submit with Replace to a slot that has a running attempt signals
\* that attempt to cancel with reason replaced, and the new unit's
\* TaskStarting{1} does not occur before the old attempt has terminated.
C4_ReplaceCancelsRunning ==
    [][\A slot \in Slots :
          (SubmitStep(slot, "Replace") /\ RunningIn(slot) # {})
          => /\ \A n \in RunningIn(slot) :
                    ctl'[n].st = "CancellingForReplace" /\ ctl'[n].cause = "replaced"
             /\ \A n \in Names : mon'[n].last # "TaskStarting"]_vars

\* C5: a submit with Queue to a slot that holds a submission, running or
\* pending restart, is not started while that submission lasts: the call
\* makes no unit current.
C5_QueueWaits ==
    [][\A slot \in Slots :
          (SubmitStep(slot, "Queue") /\ BusyIn(slot) # {})
          => \A n \in Names : ctl'[n].cur = ctl[n].cur /\ ctl'[n].attempt = ctl[n].attempt]_vars

\* The outcome the controller gives the attempt that ends in lane n.
OutcomeOf(n) == Classify(body[n].result, ctl[n].cause)

\* What follows when no further attempt of the submission is scheduled:
\* TaskRemoved is emitted, no TaskStarting of the submission follows, and the
\* pending spec, if any, is started as a first attempt.
SubmissionOver(n) ==
    /\ mon'[n].removed = mon[n].removed + 1
    /\ IF ctl[n].next = NoEntry
       THEN ctl'[n] = IdleLane /\ mon'[n].last = "TaskRemoved"
       ELSE /\ ctl'[n].cur = ctl[n].next
            /\ ctl'[n].next = NoEntry
            /\ ctl'[n].attempt = 1
            /\ ctl'[n].phase = "run"
            /\ mon'[n].last = "TaskStarting"

BaseOf(s, k) == Min(s.max_ms, s.first_ms * Pow(s.factor, k - 1))

\* The last delay was scheduled by the backoff law: after a failed or timed
\* out attempt.
Backed == bk.phase = "on" /\ bk.after \in {"Failure", "Timeout"}

AfterSuccess ==
    bk.phase = "on" /\ bk.after = "Success" /\ bk.restart.type = "Always"

Blank(command) == \A i \in 1 .. Len(command) : command[i] = " "

\* The first entry of the router that supports the spec and carries the
\* runner-tag the spec asks for, as a set of at most one position.
FirstMatch(spec) ==
    LET passing == {i \in 1 .. Len(router) :
                       /\ supports(router[i].runner, spec)
                       /\ (spec.labels # None => router[i].labels = spec.labels)}
    IN  {i \in passing : \A j \in passing : i <= j}

\* The three synchronous failures of submit, `fm` being FirstMatch(spec).
KindIsNone(spec) == spec.kind = "none"
NoRunnerMatches(spec, fm) == spec.kind # "none" /\ fm = {}
CommandIsBlank(spec, fm) ==
    /\ spec.kind = "subprocess"
    /\ Blank(spec.command)
    /\ \E i \in fm : router[i].runner = "subprocess"

\* C11: a submit that fails because the kind is None, because no runner
\* matches, or because the command is empty after trimming returns a typed
\* error (NoRunner, NoRunner, InvalidSpec), leaves the task directory as it
\* was and hands nothing to the controller: no lane changes, no event is
\* published.
C11_SyncErrors ==
    [][\A spec \in RouterSpecs :
          LET fm == FirstMatch(spec)
          IN  ((KindIsNone(spec) \/ NoRunnerMatches(spec, fm) \/ CommandIsBlank(spec, fm))
                 /\ SubmitSpec(spec))
              => /\ ret'.op = "submit" /\ ~ret'.ok
                 /\ KindIsNone(spec) => ret'.err.type = "NoRunner"
                 /\ NoRunnerMatches(spec, fm) => ret'.err.type = "NoRunner"
                 /\ CommandIsBlank(spec, fm)
                       => ret'.err = [type |-> "Runner", msg |-> "InvalidSpec"]
                 /\ dir' = dir
                 /\ UNCHANGED <<ctl, body, mon>>]_vars

\* A submit admitted task 1; the next one, of a blank command, was refused as
\* InvalidSpec and the directory holds task 1 and nothing else.
C11_Witness ==
    /\ ret = Refused("submit", [type |-> "Runner", msg |-> "InvalidSpec"])
    /\ dir[1].present
    /\ \A n \in Names \ {1} : ~dir[n].present
    /\ ctl[1].st = "Running"
    /\ seq = 3

\* C12: a spec of kind None passed to submit, that is to the router's build,
\* fails with NoRunner("TaskKind::None requires submit_with_task()") whatever
\* runners are registered, and before any runner is consulted: no run id is
\* taken and the router, the directory and the controller stay as they were.
C12_KindNoneRejected ==
    [][\A spec \in RouterSpecs :
          (spec.kind = "none" /\ SubmitSpec(spec))
          => /\ ret' = Refused("submit",
                               NoRunner("TaskKind::None requires submit_with_task()"))
             /\ build(router, spec, seq).err = ret'.err
             /\ UNCHANGED <<seq, router, dir, ctl, body, mon>>]_vars

\* A spec of kind None was refused by a full router in which an entry
\* without labels supports every spec.
C12_Witness ==
    /\ ret = Refused("submit", NoRunner("TaskKind::None requires submit_with_task()"))
    /\ Len(router) = MaxRunners
    /\ \E i \in 1 .. Len(router) : router[i] = RunnerEntry("fn", None)
    /\ \E i \in 1 .. Len(router) : router[i].runner = "subprocess"

\* C13: if pick(spec) returns a runner, the runner supports the spec and, if
\* the spec carries a runner-tag, the labels of the runner's entry map
\* runner-tag to the same value; an entry without the label is never
\* returned for a spec that carries one.
C13_PickSound ==
    \A spec \in RouterSpecs :
        LET p == pick(router, spec)
        IN  p # None
            => /\ p[1] \in 1 .. Len(router)
               /\ supports(router[p[1]].runner, spec)
               /\ spec.labels # None
                     => /\ router[p[1]].labels # None
                        /\ router[p[1]].labels[1] = spec.labels[1]

\* For a spec tagged t2 pick passes over an entry without labels and an entry
\* tagged t1, both of which support the spec, and returns the third entry.
C13_Witness ==
    /\ Len(router) = 3
    /\ router[1] = RunnerEntry("fn", None)
    /\ router[2] = RunnerEntry("subprocess", Some("t1"))
    /\ router[3] = RunnerEntry("subprocess", Some("t2"))
    /\ pick(router, CreateSpec("a", "subprocess", <<"l", "s">>, FALSE, "Queue",
                               Never, 1500, Some("t2"))) = Some(3)

\* C14 (as amended): pick returns the earliest-registered entry that passes
\* both the supports filter and the runner-tag filter, and for a spec whose
\* kind is not None build fails with NoRunner(kind) exactly when no entry
\* passes both filters.
C14_FirstSurvivor ==
    \A spec \in RouterSpecs :
        LET p == pick(router, spec)
            b == build(router, spec, seq)
        IN  /\ p = None <=> FirstMatch(spec) = {}
            /\ p # None => p[1] \in FirstMatch(spec)
            /\ spec.kind # "none"
                  => ((~b.ok /\ b.err = NoRunner(spec.kind)) <=> FirstMatch(spec) = {})

\* Of two entries tagged t1 that support a wasm spec tagged t1 pick returns
\* the one registered first, after an entry that does not support the spec;
\* no entry is tagged t2 and the same spec tagged t2 fails with NoRunner(wasm).
C14_Witness ==
    /\ Len(router) = 3
    /\ router[1] = RunnerEntry("subprocess", Some("t1"))
    /\ router[2] = RunnerEntry("fn", Some("t1"))
    /\ router[3] = RunnerEntry("fn", Some("t1"))
    /\ pick(router, CreateSpec("a", "wasm", <<>>, FALSE, "Queue", Never, 1500,
                               Some("t1"))) = Some(2)
    /\ build(router, CreateSpec("a", "wasm", <<>>, FALSE, "Queue", Never, 1500,
                                Some("t2")), seq).err = NoRunner("wasm")

\* C14 as stated: build fails with NoRunner(kind) exactly when no entry
\* passes both filters, for every spec.
C14_AsStated ==
    \A spec \in RouterSpecs :
        LET b == build(router, spec, seq)
        IN  (~b.ok /\ b.err = NoRunner(spec.kind)) <=> FirstMatch(spec) = {}

\* C15: a registration of an entry whose runner-tag an entry of the router
\* already carries is rejected as DuplicateRunnerTag and leaves the router
\* unchanged, so that after any sequence of registrations no two entries of
\* the router carry the same runner-tag value.
C15_UniqueRunnerTags ==
    \A i, j \in 1 .. Len(router) :
        (i # j /\ router[i].labels # None) => router[i].labels # router[j].labels

C17_ListByStatus ==
    /\ \A st \in TaskStatus :
          list_by_status(dir, st) = {id \in Names : trk[id].live /\ trk[id].last = st}
    /\ \A id \in list_all(dir) :
          Cardinality({st \in TaskStatus : id \in list_by_status(dir, st)}) = 1
    /\ \A id \in Names, st \in TaskStatus :
          (trk[id].added /\ ~trk[id].live) => id \notin list_by_status(dir, st)

\* Task 1 succeeded and was removed; task 2, started twice, is the one task
\* listed, under Timeout.
C17_Witness ==
    /\ trk[1].added /\ ~trk[1].live /\ trk[1].last = "Succeeded"
    /\ trk[2].starts = 2
    /\ list_by_status(dir, "Timeout") = {2}
    /\ list_all(dir) = {2}

\* An event of kind `kind` about task `id` with reason `reason`.
EventOf(kind, id, reason) ==
    [kind |-> kind, task |-> Some(id), attempt |-> 0, reason |-> reason]

\* C18: the error of an entry is set only for non-success terminal states:
\* TaskFailed stores the reason of the event, or "unknown", TimeoutHit stores
\* "timeout", and whenever the status is Pending, Running or Succeeded,
\* Running again after a restart included, the error is empty.
C18_ErrorOnlyOnFailure ==
    [][\A id \in TrackedIds :
          /\ (dir'[id].present /\ dir'[id].status \in {"Pending", "Running", "Succeeded"})
                => dir'[id].error = None
          /\ (dir'[id].present /\ dir'[id].error # None)
                => dir'[id].status \in {"Failed", "Timeout", "Exhausted"}
          /\ \A reason \in Reasons :
                (Deliver(EventOf("TaskFailed", id, reason)) /\ dir[id].present)
                => /\ dir'[id].status = "Failed"
                   /\ dir'[id].error = IF reason = None THEN Some("unknown") ELSE reason
          /\ (Deliver(EventOf("TimeoutHit", id, None)) /\ dir[id].present)
                => /\ dir'[id].status = "Timeout"
                   /\ dir'[id].error = Some("timeout")]_vars

\* Task 1 runs its second attempt with no error; task 2 failed with an
\* event that carried no reason.
C18_Witness ==
    /\ dir[1].present /\ dir[1].status = "Running" /\ dir[1].attempt = 2
    /\ dir[1].error = None
    /\ dir[2].present /\ dir[2].status = "Failed" /\ dir[2].error = Some("unknown")

\* C19: a task is created on submit, tracked until TaskRemoved, and then
\* dropped: the id submit returned is queryable and shows the last applied
\* transition until TaskRemoved for that id is applied, after which get
\* returns nothing and the id is in no list; an id is never dropped before
\* its TaskRemoved.
C19_TrackedUntilRemoved ==
    [][\A id \in TrackedIds :
          /\ (\E slot \in Slots : TrackSubmit(id, slot))
                => get(dir', id) # None /\ dir'[id].status = "Pending"
          /\ trk'[id].live
                => get(dir', id) # None /\ get(dir', id)[1].status = trk'[id].last
          /\ (get(dir, id) # None /\ get(dir', id) = None)
                => Deliver(EventOf("TaskRemoved", id, None))
          /\ Deliver(EventOf("TaskRemoved", id, None))
                => /\ get(dir', id) = None
                   /\ id \notin list_all(dir')
                   /\ \A st \in TaskStatus : id \notin list_by_status(dir', st)
                   /\ \A slot \in Slots : id \notin list_by_slot(dir', slot)]_vars

\* Task 1 was submitted, ran and was dropped at its TaskRemoved; task 2,
\* exhausted after two starts, is still there.
C19_Witness ==
    /\ trk[1].added /\ ~trk[1].live /\ trk[1].starts = 1 /\ get(dir, 1) = None
    /\ trk[2].live /\ trk[2].starts = 2
    /\ get(dir, 2) # None /\ dir[2].status = "Exhausted"

\* C20: TaskAdded inserts the task as Pending: after the tracker applied
\* TaskAdded for an id the directory holds that id with status Pending,
\* whether or not the tracker knew the id before the event.
C20_TaskAddedInserts ==
    \A id \in TrackedIds :
        trk[id].task_added => dir[id].present /\ dir[id].status = "Pending"

\* ------------------------------------------------------------ the bus
Increasing(sq) == \A i, j \in 1 .. Len(sq) : i < j => sq[i] < sq[j]

RECURSIVE ApplyAll(_, _, _)
ApplyAll(d, evs, idxs) ==
    IF idxs = <<>> THEN d
    ELSE ApplyAll(on_event(d, evs[Head(idxs)]), evs, Tail(idxs))

SubmittedDir == add_task(add_task([n \in Names |-> NoTask], 1, "a"), 1, "a")

\* C21: each subscriber is handed its events in the order they were
\* enqueued, which is the order the controller published them: what a worker
\* has delivered followed by what waits in its queue is in publication
\* order, so the tracker's directory is the result of applying, in that
\* order, exactly the events delivered to it. Nothing relates the progress
\* of one subscriber to that of another.
C21_DeliveryInOrder ==
    /\ \A s \in Subscribers : Increasing(bus.got[s] \o bus.q[s])
    /\ dir = ApplyAll(SubmittedDir, bus.emitted, bus.got["state-subscriber"])

\* The tracker has applied a start and then a failure while the logging
\* subscriber has not been handed anything yet.
C21_Witness ==
    /\ Len(bus.got["state-subscriber"]) >= 2
    /\ bus.emitted[bus.got["state-subscriber"][1]].kind = "TaskStarting"
    /\ bus.emitted[bus.got["state-subscriber"][2]].kind = "TaskFailed"
    /\ bus.got["subscriber"] = <<>>
    /\ dir[1].status = "Failed"

InQueue(b, s, i) == \E k \in 1 .. Len(b.q[s]) : b.q[s][k] = i

\* C22: no queue ever holds more than queue_capacity events; a publish
\* completes whatever the queues hold, and the event is dropped exactly for
\* the subscribers whose queue was full, each of which is named by a
\* SubscriberOverflow event published after it, while every other
\* subscriber has the event enqueued.
C22_BoundedQueue ==
    [][/\ \A s \in Subscribers : Len(bus'.q[s]) <= queue_capacity(s)
       /\ \A kind \in BusEvents :
            Publish(kind) =>
                LET i == Len(bus.emitted) + 1 IN
                \A s \in Subscribers :
                    IF Len(bus.q[s]) >= queue_capacity(s)
                    THEN /\ ~InQueue(bus', s, i)
                         /\ \E j \in i + 1 .. Len(bus'.emitted) :
                                bus'.emitted[j] = SubscriberOverflow(s)
                    ELSE InQueue(bus', s, i)]_vars

\* An event was dropped for the tracker, whose queue was full, and the
\* logging subscriber has it, followed by the overflow event.
C22_Witness ==
    \E i \in 1 .. Len(bus.emitted) - 1 :
        /\ bus.emitted[i + 1] = SubscriberOverflow("state-subscriber")
        /\ ~InQueue(bus, "state-subscriber", i)
        /\ InQueue(bus, "subscriber", i)
        /\ InQueue(bus, "subscriber", i + 1)

\* ------------------------------------------------------------ shutdown
Emitted(e) == \E i \in 1 .. Len(sd.events) : sd.events[i] = e

Verdicts ==
    {i \in 1 .. Len(sd.events) :
        sd.events[i].kind \in {"GraceExceeded", "AllStoppedWithinGrace"}}

ShutdownVerdict ==
    /\ sd.phase # "done" => Verdicts = {}
    /\ sd.phase = "done" =>
        /\ Verdicts = {Len(sd.events)}
        /\ sd.events[Len(sd.events)].task = None
        /\ Emitted(SupervisorEvent("ShutdownRequested"))
        /\ sd.live # {} <=> Emitted(SupervisorEvent("GraceExceeded"))
        /\ sd.live = {} <=> Emitted(SupervisorEvent("AllStoppedWithinGrace"))

Did(step) == \E i \in 1 .. Len(proc.trace) : proc.trace[i] = step

\* C24: when the body has taken the exit of the child, its result is a
\* failure exactly when the status is not a success and fail_on_non_zero is
\* enabled; the reason then carries the exit code, or says that a signal
\* terminated the process; in every other case the result is success, as
\* with fail_on_non_zero disabled and exit code 7.
C24_ExitOutcome ==
    Did("wait") =>
        LET status == proc.status[1]
            result == proc.result[1]
        IN  /\ result.kind \in {"Ok", "Fail"}
            /\ result.kind = "Fail" <=>
                    (status # <<"code", 0>> /\ proc.fail_on_non_zero)
            /\ result.kind = "Fail" =>
                    \/ /\ status[1] = "code"
                       /\ result.reason =
                            Some(<<"process exited with non-zero code: ", status[2]>>)
                    \/ /\ status = <<"signal">>
                       /\ result.reason = Some(<<"process terminated by signal">>)
            /\ result.kind = "Ok" => result.reason = None
            /\ (status = <<"code", 7>> /\ ~proc.fail_on_non_zero) => result = OkResult

\* The child exited with code 7, fail_on_non_zero is disabled, and the body
\* has returned success.
C24_Witness ==
    /\ proc.pc = "returned"
    /\ Did("wait")
    /\ proc.status = Some(<<"code", 7>>)
    /\ ~proc.fail_on_non_zero
    /\ proc.result = Some(OkResult)

\* C29: a body that returns canceled has killed the child, then joined
\* both readers, then tried to remove the cgroup if it has one, and returned
\* last: the child is reaped and both readers are over when it returns.
C29_CancelOrder ==
    (proc.pc = "returned" /\ proc.result = Some(Canceled)) =>
        /\ proc.trace = IF proc.cgroup = "none"
                        THEN <<"kill", "join", "return">>
                        ELSE <<"kill", "join", "cleanup", "return">>
        /\ proc.child = "reaped"
        /\ \A r \in Streams : proc.readers[r] = "done"

\* The body was cancelled while the child ran, and has returned canceled
\* with the cgroup removed.
C29_Witness ==
    /\ proc.pc = "returned"
    /\ proc.result = Some(Canceled)
    /\ proc.status = Some(<<"signal">>)
    /\ proc.cgroup = "removed"
    /\ proc.trace = <<"kill", "join", "cleanup", "return">>

\* C30: once its cancel token is cancelled, the body of a subprocess
\* attempt returns.
C30_CancelReturns ==
    (proc.cancel /\ proc.pc # "none") ~> (proc.pc = "returned")

\* ------------------------------------------------- the API services
\* C25: a request whose CreateSpec has timeout_ms = 0, backoff.first_ms = 0,
\* backoff.max_ms = 0 or a factor that is not positive is answered with an
\* error of the invalid-spec kind, on either service, and the supervisor's
\* submit is not called for it.
C25_WireRejects ==
    (/\ api.via # "none"
     /\ \/ api.timeout_ms = 0
        \/ api.backoff.first_ms = 0
        \/ api.backoff.max_ms = 0
        \/ api.backoff.factor <= 0)
    => (~api.submitted /\ api.error # None /\ api.error[1].type = "InvalidRequest")

\* ------------------------------------------------------ environments
\* The positions of the pushes with key `key` in e.
PushesOf(e, key) == {i \in 1 .. Len(e) : e[i].key = key}

LastPush(e, key) ==
    IF PushesOf(e, key) = {} THEN None
    ELSE Some(e[CHOOSE i \in PushesOf(e, key) :
                    \A j \in PushesOf(e, key) : j <= i].value)

\* C26: get(k) is the value of the last push with key k, and None when
\* nothing was pushed with k: in the context's and in the spec's
\* environment.
C26_GetLastPush ==
    \A key \in EnvKeys \cup {"BAZ"} :
        /\ Env_get(env.ctx, key) = LastPush(env.ctx, key)
        /\ Env_get(env.spec, key) = LastPush(env.spec, key)

\* FOO was pushed twice, with different values, and BAR never: get gives
\* the second value for FOO and None for BAR.
C26_Witness ==
    /\ Len(env.spec) = 2
    /\ env.spec[1] = KeyValue("FOO", "one")
    /\ env.spec[2] = KeyValue("FOO", "two")
    /\ Env_get(env.spec, "FOO") = Some("two")
    /\ Env_get(env.spec, "BAR") = None

EnvMergedOverrides ==
    env.cfg # None =>
        /\ env.cfg[1] = env.ctx \o env.spec
        /\ \A key \in EnvKeys \cup {"BAZ"} :
               Env_get(env.cfg[1], key) =
                   IF Env_get(env.spec, key) # None THEN Env_get(env.spec, key)
                   ELSE Env_get(env.ctx, key)

\* C27: the environment of a subprocess task config is the context's
\* environment followed by the spec's: get on it gives the spec's value for
\* a key the spec has and the context's value otherwise; the build leaves
\* both operands as they were.
C27_MergedOverrides ==
    /\ []EnvMergedOverrides
    /\ [][BuildTaskConfig => (env'.ctx = env.ctx /\ env'.spec = env.spec)]_vars

\* A config built from a context and a spec that both set FOO, and a
\* context that alone sets BAR.
C27_Witness ==
    /\ env.cfg # None
    /\ Env_get(env.ctx, "FOO") = Some("one")
    /\ Env_get(env.ctx, "BAR") = Some("one")
    /\ Env_get(env.spec, "FOO") = Some("two")
    /\ Env_get(env.spec, "BAR") = None
    /\ Env_get(env.cfg[1], "FOO") = Some("two")
    /\ Env_get(env.cfg[1], "BAR") = Some("one")

\* ---------------------------------------------------------- run ids
\* C28: the callers of make_run_id, however their calls interleave, hold
\* pairwise distinct sequence numbers, and the ids returned to them are
\* pairwise distinct, whatever the runner names and slots.
C28_DistinctRunIds ==
    \A t, u \in Callers :
        (t # u /\ ids[t].pc # "idle" /\ ids[u].pc # "idle") =>
            /\ ids[t].n # ids[u].n
            /\ (ids[t].pc = "done" /\ ids[u].pc = "done") => ids[t].id # ids[u].id

\* Caller 3 has its id; callers 1 and 2 took their numbers before either
\* formatted its id, one for runner r-a and slot a, the other for runner r
\* and slot a-1.
C28_Witness ==
    /\ ids[1].pc = "format"
    /\ ids[2].pc = "format"
    /\ ids[3].pc = "done"
    /\ ids[3].id = <<"r", "-", "a", "-", "a", "-", "1">>
    /\ ids[1].runner_name = <<"r", "-", "a">>
    /\ ids[1].slot = <<"a">>
    /\ ids[2].runner_name = <<"r">>
    /\ ids[2].slot = <<"a", "-", "1">>

\* C31: a body whose runner has cgroups configured and whose child was
\* spawned has, when it returns, attempted the removal of the cgroup, in
\* whatever way it finished: exit of the child, cancel, or an error of wait.
C31_CleanupAlways ==
    (proc.pc = "returned" /\ proc.cgroup # "none" /\ proc.child # "none")
        => Did("cleanup")

\* C32: the child applies its isolation in the order rlimits, cgroups,
\* security: no rlimit step and no cgroup step comes after the capabilities
\* were dropped or no_new_privs was set, and no rlimit step after a cgroup
\* step.
C32_HookOrder ==
    \A i, j \in 1..Len(pre.trace) :
        i < j =>
            /\ pre.trace[i] \in {"capabilities", "no_new_privs"} =>
                   pre.trace[j] \notin {"rlimits", "cgroups"}
            /\ pre.trace[i] = "cgroups" => pre.trace[j] # "rlimits"

\* A child with all three configured ran them all and executed the program.
C32_Witness ==
    pre.trace = <<"rlimits", "cgroups", "capabilities", "no_new_privs", "exec">>

\* What the child wrote to stderr about its cgroup and about the drop of
\* its capabilities.
CgroupMessages == UNION {{cgroup_log(o)[1]} : o \in CgroupOutcomes \ {"ok"}}
Logged(msgs) == \E i \in 1..Len(pre.log) : pre.log[i] \in msgs

\* C33: a failure of an rlimit or of no_new_privs ends the child without
\* exec and fails the spawn; a failure of the cgroup or of the drop of
\* capabilities is written to stderr and does not fail the spawn.
C33_HookFailures ==
    /\ (pre.failed \cap {"rlimits", "no_new_privs"} # {}) =>
           (pre.pc = "failed" /\ pre.spawn = Some("Err"))
    /\ pre.pc = "failed" => pre.failed \cap {"rlimits", "no_new_privs"} # {}
    /\ "cgroups" \in pre.failed => Logged(CgroupMessages)
    /\ "capabilities" \in pre.failed =>
           Logged({"failed to drop capabilities (continuing)"})

\* C34: a call of apply_rlimit that succeeds leaves the soft limit at the
\* requested value and the hard limit at infinity if it was infinity, else at
\* the larger of the old hard limit and the requested value; a call that fails
\* leaves the limits as they were; so after every call soft <= hard and the
\* hard limit is not below the old one.
C34_RlimitApplied ==
    \A i \in 1..Len(pre.calls) :
        LET c == pre.calls[i]
        IN  /\ c.ok =>
                   /\ c.after.rlim_cur = c.value
                   /\ c.after.rlim_max =
                          IF c.before.rlim_max = RLIM_INFINITY THEN RLIM_INFINITY
                          ELSE Max(c.before.rlim_max, c.value)
            /\ ~c.ok => c.after = c.before
            /\ c.after.rlim_cur <= c.after.rlim_max
            /\ c.after.rlim_max >= c.before.rlim_max

\* A privileged child raised a finite hard limit of 1 to the requested 2, and
\* the next call kept the hard limit of 2 above the requested 1.
C34_Witness ==
    /\ Len(pre.calls) >= 2
    /\ pre.calls[1] = [resource |-> "NOFILE", value |-> 2, ok |-> TRUE,
                       before |-> [rlim_cur |-> 0, rlim_max |-> 1],
                       after |-> [rlim_cur |-> 2, rlim_max |-> 2]]
    /\ pre.calls[2].ok
    /\ pre.calls[2].resource = "FSIZE"
    /\ pre.calls[2].after = [rlim_cur |-> 1, rlim_max |-> 1]

\* The capability values of the allowlist of the child's security config.
KeepValues == keep_mask(pre.config[1].security[1].keep_caps)

HasZeroLimit(backend) ==
    \/ backend.cgroups # None /\ Some(0) \in {backend.cgroups[1].memory,
                                               backend.cgroups[1].pids}
    \/ backend.rlimits # None /\ backend.rlimits[1].max_file_size_bytes = Some(0)
    \/ backend.log.max_line_length = 0

\* C36: a registration with a backend configuration in which memory, pids,
\* max_file_size_bytes or max_line_length is zero is refused and leaves the
\* router as it was.
C36_ZeroLimitsRejected ==
    [][\A name \in RunnerTags, backend \in Backends :
          (HasZeroLimit(backend)
              /\ RegisterSubprocessRunnerWithBackend(name, backend)) =>
                  (router' = router /\ ~ret'.ok)]_vars

\* C37: the sequence read back from a run id is the one the id was made
\* with, for runner names and slots with and without '-', so the cgroup name
\* of a built task carries the sequence of its run id.
C37_SeqRoundTrip ==
    \A t \in Callers :
        /\ ids[t].pc \in {"done", "named"} =>
               extract_seq_from_run_id(ids[t].id) = ids[t].n
        /\ ids[t].pc = "named" =>
               ids[t].cgroup_name =
                   build_cgroup_name(ids[t].runner_name, ids[t].slot, ids[t].n,
                                     ids[t].timestamp)

\* The 256th run id of the process, for runner r-a and slot a-1, is
\* r-a-a-1-100, and its cgroup is named r-a-a-1-100-1a.
C37_Witness ==
    /\ ids[1].pc = "named"
    /\ ids[1].n = 256
    /\ ids[1].id = <<"r", "-", "a", "-", "a", "-", "1", "-", "1", "0", "0">>
    /\ ids[1].cgroup_name =
           <<"r", "-", "a", "-", "a", "-", "1", "-", "1", "0", "0", "-", "1", "a">>

\* C38: a TaskStopped applied to a tracked task leaves it Succeeded with no
\* error, with a reason in the event or without, and no event leaves a task
\* of the directory in status Canceled.
C38_StoppedIsSucceeded ==
    [][\A id \in TrackedIds :
          /\ dir'[id].present => dir'[id].status # "Canceled"
          /\ \A reason \in Reasons :
                (dir[id].present /\ Deliver(EventOf("TaskStopped", id, reason)))
                => /\ dir'[id].status = "Succeeded"
                   /\ dir'[id].error = None]_vars

\* Both tasks stopped, task 1 in its first attempt and task 2 in its second.
C38_Witness ==
    /\ dir[1].present /\ dir[1].status = "Succeeded" /\ dir[1].attempt = 1
    /\ dir[2].present /\ dir[2].status = "Succeeded" /\ dir[2].attempt = 2

\* C39: a task whose submission the controller has just rejected is in the
\* directory as Pending with attempt 0, and no step of the program changes or
\* removes that entry.
C39_RejectedStaysPending ==
    [][\A n \in Names :
          (/\ mon[n].last = "ControllerRejected"
           /\ dir[n].present /\ dir[n].status = "Pending" /\ dir[n].attempt = 0)
          => (dir'[n].present /\ dir'[n].status = "Pending"
                              /\ dir'[n].attempt = 0)]_vars

====
